---- MODULE Spec2Model ----
(***************************************************************************)
(* Fee, exchange-cost and channel-comparison functions of                  *)
(* _03_rate_calculator.py over the static tables of _01_config.py, and     *)
(* the validators and calculate_percentile of _02_utils.py (Spec); the     *)
(* Transaction and channel objects of _05_models.py (TransactionSpec,      *)
(* Spec); generate_transactions_by_total of _04_data_generator.py          *)
(* (GeneratorSpec); interactive_mode of _09_main.py (MenuSpec); and        *)
(* several callers of _03_rate_calculator.py at once (ConcurrentSpec).     *)
(*                                                                         *)
(* Number representation (Python floats are modelled as exact decimals):   *)
(*   amount                      whole currency units                      *)
(*   base_rate, tier rate        1/10000           (0.015  -> 150)         *)
(*   fixed_fee, min_fee, max_fee 1/10000 of a unit (80     -> 800000)      *)
(*   every returned money field  1/10000 of a unit, a multiple of 100      *)
(*     (calculated_fee, final_fee, market_amount, actual_amount,           *)
(*     exchange_loss, fee, amount_cny, total_cost) after round(.., 2)      *)
(*   market_rate, spread_rate    1/1000            (7.25 -> 7250)          *)
(*   unrounded actual_rate       1/1000000         (7.21375 -> 7213750)    *)
(*   returned actual_rate        1/10000, after round(.., 4)               *)
(*   total_cost_rate             1/10000, after round(.., 4)               *)
(*   unrounded total_cost        1/1000000                                 *)
(* round() of a value that lies exactly between two results goes the way   *)
(* the binary representation of the float decides; the model leaves that   *)
(* open: every function is modelled by the set of records it can return,   *)
(* one per combination of directions, and equal values round equally.      *)
(***************************************************************************)
EXTENDS Integers, Sequences, FiniteSets, TLC

\* the three tables; the call in progress and its arguments; the value it
\* returned; the name of the exception it raised ("" if it returned)
VARIABLES PAYMENT_CHANNELS, TIERED_RATES, EXCHANGE_RATES, call, result,
          raised

\* a Transaction object and the method last called on it; the locals of a
\* run of generate_transactions_by_total; the position of interactive_mode
\* and what it has read and shown; the calls of several callers in progress
VARIABLES transaction, generator, menu, callers

vars == <<PAYMENT_CHANNELS, TIERED_RATES, EXCHANGE_RATES, call, result,
          raised, transaction, generator, menu, callers>>

\* ------------------------------------------------------------------------
\* Bounds and input domains
\* ------------------------------------------------------------------------

\* longest channel_ids list passed to compare_channel_fees
MaxIds == 2

\* amounts passed to the fee and tier functions
Amounts == {-100, 0, 1, 3, 100, 1000, 5000, 10000, 10001, 50000, 60000,
            100000, 200000}

\* amounts passed to the exchange / total-cost / comparison functions
CostAmounts == {-100, 0, 1, 7, 100, 1000}

\* spread_rate arguments, 1/1000 (0, 0.005 the default, 0.01)
SpreadRates == {0, 5, 10}

Currencies == {"USD", "EUR", "JPY", "CNY", "XXX"}

\* longest string passed to validate_amount and validate_currency
MaxLen == 3

\* float('inf') as a tier bound: larger than every amount
Infinity == 2000000000

\* ------------------------------------------------------------------------
\* The static tables of _01_config.py
\* ------------------------------------------------------------------------

CatalogOrder == <<"swift", "bank_transfer">>

CatalogIds == {CatalogOrder[i] : i \in 1..Len(CatalogOrder)}

ChannelIds == CatalogIds \cup {"no_such_channel"}

\* channel configurations a catalog entry may hold; optional keys may be
\* absent (the code reads them with dict.get and a default)
ChannelConfigs ==
  { [name |-> "plain", base_rate |-> 150, fixed_fee |-> 2500,
     supported_currencies |-> {"USD", "CNY"}],
    [name |-> "swift", base_rate |-> 150, fixed_fee |-> 300000,
     min_fee |-> 800000, max_fee |-> 8000000,
     supported_currencies |-> {"USD", "EUR", "JPY"}, is_active |-> TRUE],
    [name |-> "minonly", base_rate |-> 200, fixed_fee |-> 0,
     min_fee |-> 100000, max_fee |-> 0,
     supported_currencies |-> {"USD", "EUR", "CNY"}, is_active |-> TRUE],
    [name |-> "maxonly", base_rate |-> 125, fixed_fee |-> 5000,
     max_fee |-> 500000,
     supported_currencies |-> {"USD", "CNY"}, is_active |-> TRUE],
    [name |-> "inverted", base_rate |-> 200, min_fee |-> 100000,
     max_fee |-> 50000,
     supported_currencies |-> {"USD", "CNY"}, is_active |-> TRUE],
    [name |-> "subcent", base_rate |-> 200, min_fee |-> 100040,
     max_fee |-> 200060,
     supported_currencies |-> {"USD"}, is_active |-> TRUE],
    [name |-> "inactive", base_rate |-> 150, fixed_fee |-> 0,
     supported_currencies |-> {"USD", "CNY"}, is_active |-> FALSE] }

\* the tier list of the bank_transfer scenario, and one without a final
\* unbounded tier; both ascending in max_amount
SpecTiers ==
  << [max_amount |-> 10000, rate |-> 150],
     [max_amount |-> 50000, rate |-> 120],
     [max_amount |-> 100000, rate |-> 100],
     [max_amount |-> Infinity, rate |-> 80] >>

FiniteTiers ==
  << [max_amount |-> 1000, rate |-> 200],
     [max_amount |-> 10000, rate |-> 150],
     [max_amount |-> 50000, rate |-> 100] >>

\* TIERED_RATES: which channels have a tier list
TierTables ==
  { [bank_transfer |-> SpecTiers],
    [swift |-> FiniteTiers] }

\* PAYMENT_CHANNELS: the first channel holds any configuration, the second
\* one of three (equal to the first, different from it, or inactive)
Catalogs ==
  { c \in [CatalogIds -> ChannelConfigs] :
      c["bank_transfer"].name \in {"plain", "minonly", "inactive"} }

RateTable == [USD |-> 7250, EUR |-> 7850, JPY |-> 48]

\* ------------------------------------------------------------------------
\* Helpers
\* ------------------------------------------------------------------------

\* the empty dict {}
EmptyDict == [k \in {} |-> 0]

\* dict.get(key, default)
Get(d, key, default) == IF key \in DOMAIN d THEN d[key] ELSE default

\* n / d rounded to an integer, d > 0: the nearest one, either neighbour
\* when n / d lies exactly between two
RoundDiv(n, d) ==
  LET q == n \div d
      r == n % d
  IN  IF 2 * r < d THEN {q}
      ELSE IF 2 * r > d THEN {q + 1}
      ELSE {q, q + 1}

\* (a * b) / d rounded as RoundDiv, without forming a * b
MulRoundDiv(a, b, d) == {a * (b \div d) + v : v \in RoundDiv(a * (b % d), d)}

\* round(x, 2) of a value held in 1/10000, results in 1/10000
Round2(x) == {100 * v : v \in RoundDiv(x, 100)}

\* ------------------------------------------------------------------------
\* calculate_tiered_rate
\* ------------------------------------------------------------------------

\* faulty variant: the bound test is exclusive
TierIndexExclusive(amount, tiers) ==
  IF \E i \in 1..Len(tiers) : amount < tiers[i].max_amount
  THEN CHOOSE i \in 1..Len(tiers) :
         /\ amount < tiers[i].max_amount
         /\ \A j \in 1..(i - 1) : ~(amount < tiers[j].max_amount)
  ELSE Len(tiers)

\* faulty variant: the fallback is the first tier
TierIndexFallbackFirst(amount, tiers) ==
  IF \E i \in 1..Len(tiers) : amount <= tiers[i].max_amount
  THEN CHOOSE i \in 1..Len(tiers) :
         /\ amount <= tiers[i].max_amount
         /\ \A j \in 1..(i - 1) : ~(amount <= tiers[j].max_amount)
  ELSE 1

\* index of the tier the loop returns from: the first tier, in list order,
\* with amount <= max_amount, and the last tier when the loop falls through
TierIndex(amount, tiers) ==
  IF \E i \in 1..Len(tiers) : amount <= tiers[i].max_amount
  THEN CHOOSE i \in 1..Len(tiers) :
         /\ amount <= tiers[i].max_amount
         /\ \A j \in 1..(i - 1) : ~(amount <= tiers[j].max_amount)
  ELSE Len(tiers)

calculate_tiered_rate(amount, channel_id) ==
  IF channel_id \notin DOMAIN TIERED_RATES
  THEN LET channel_config == Get(PAYMENT_CHANNELS, channel_id, EmptyDict)
       IN  Get(channel_config, "base_rate", 200)
  ELSE LET tiers == TIERED_RATES[channel_id]
       IN  tiers[TierIndex(amount, tiers)].rate

\* ------------------------------------------------------------------------
\* calculate_channel_fee
\* ------------------------------------------------------------------------

\* faulty variant: the tier table is consulted whatever use_tiered_rate says
SelectRateAlwaysTiered(amount, channel_id, use_tiered_rate, channel_config) ==
  IF channel_id \in DOMAIN TIERED_RATES
  THEN calculate_tiered_rate(amount, channel_id)
  ELSE channel_config.base_rate

SelectRate(amount, channel_id, use_tiered_rate, channel_config) ==
  IF use_tiered_rate /\ channel_id \in DOMAIN TIERED_RATES
  THEN calculate_tiered_rate(amount, channel_id)
  ELSE channel_config.base_rate

\* faulty variant: the fixed fee is left out
CalculatedFeeNoFixed(amount, rate, fixed_fee) == amount * rate

CalculatedFee(amount, rate, fixed_fee) == amount * rate + fixed_fee

\* faulty variant: no minimum clamp
ClampFeeNoMin(calculated_fee, min_fee, max_fee) ==
  IF max_fee > 0 /\ calculated_fee > max_fee
  THEN [final_fee |-> max_fee, fee_note |-> "max_fee_applied"]
  ELSE [final_fee |-> calculated_fee, fee_note |-> ""]

\* faulty variant: no maximum clamp
ClampFeeNoMax(calculated_fee, min_fee, max_fee) ==
  IF min_fee > 0 /\ calculated_fee < min_fee
  THEN [final_fee |-> min_fee, fee_note |-> "min_fee_applied"]
  ELSE [final_fee |-> calculated_fee, fee_note |-> ""]

\* faulty variant: the maximum is applied without a note
ClampFeeSilentMax(calculated_fee, min_fee, max_fee) ==
  IF min_fee > 0 /\ calculated_fee < min_fee
  THEN [final_fee |-> min_fee, fee_note |-> "min_fee_applied"]
  ELSE IF max_fee > 0 /\ calculated_fee > max_fee
  THEN [final_fee |-> max_fee, fee_note |-> ""]
  ELSE [final_fee |-> calculated_fee, fee_note |-> ""]

\* the if / elif of the minimum and maximum limits
ClampFee(calculated_fee, min_fee, max_fee) ==
  IF min_fee > 0 /\ calculated_fee < min_fee
  THEN [final_fee |-> min_fee, fee_note |-> "min_fee_applied"]
  ELSE IF max_fee > 0 /\ calculated_fee > max_fee
  THEN [final_fee |-> max_fee, fee_note |-> "max_fee_applied"]
  ELSE [final_fee |-> calculated_fee, fee_note |-> ""]

\* faulty variant: the lookup result is never taken to be None
ChannelIsNoneNever(channel_id) == FALSE

\* channel_config = PAYMENT_CHANNELS.get(channel_id) is None
ChannelIsNone(channel_id) == channel_id \notin DOMAIN PAYMENT_CHANNELS

\* faulty variant: the is_active flag is ignored
IsActiveAlways(channel_config) == TRUE

\* channel_config.get("is_active", True)
IsActive(channel_config) == Get(channel_config, "is_active", TRUE)

\* the exception calculate_tiered_rate ends with, "" when it returns:
\* tiers[-1] of an empty tier list is an IndexError
tiered_rate_exception(amount, channel_id) ==
  IF channel_id \in DOMAIN TIERED_RATES /\ TIERED_RATES[channel_id] = <<>>
  THEN "IndexError"
  ELSE ""

\* the exception calculate_channel_fee ends with, "" when it returns a
\* record: .get of None is an AttributeError, a subscript with a key the
\* dict does not have is a KeyError
channel_fee_exception(amount, channel_id, use_tiered_rate) ==
  IF ChannelIsNone(channel_id)
  THEN ""
  ELSE IF channel_id \notin DOMAIN PAYMENT_CHANNELS
  THEN "AttributeError"
  ELSE
    LET channel_config == PAYMENT_CHANNELS[channel_id] IN
    IF ~IsActive(channel_config)
    THEN ""
    ELSE IF use_tiered_rate /\ channel_id \in DOMAIN TIERED_RATES
    THEN IF tiered_rate_exception(amount, channel_id) # ""
         THEN tiered_rate_exception(amount, channel_id)
         ELSE IF "name" \notin DOMAIN channel_config
         THEN "KeyError"
         ELSE ""
    ELSE IF "base_rate" \notin DOMAIN channel_config
    THEN "KeyError"
    ELSE IF "name" \notin DOMAIN channel_config
    THEN "KeyError"
    ELSE ""

calculate_channel_fee(amount, channel_id, use_tiered_rate) ==
  IF ChannelIsNone(channel_id)
  THEN {[success |-> FALSE, error |-> "unknown_channel"]}
  ELSE
    LET channel_config == PAYMENT_CHANNELS[channel_id] IN
    IF ~IsActive(channel_config)
    THEN {[success |-> FALSE, error |-> "inactive_channel"]}
    ELSE
      LET rate == SelectRate(amount, channel_id, use_tiered_rate,
                             channel_config)
          fixed_fee == Get(channel_config, "fixed_fee", 0)
          calculated_fee == CalculatedFee(amount, rate, fixed_fee)
          min_fee == Get(channel_config, "min_fee", 0)
          max_fee == Get(channel_config, "max_fee", 0)
          clamp == ClampFee(calculated_fee, min_fee, max_fee)
          \* round(final_fee, 2), given round(calculated_fee, 2)
          RoundFinal(rounded_calculated) ==
            IF clamp.final_fee = calculated_fee
            THEN {rounded_calculated}
            ELSE Round2(clamp.final_fee)
      IN  UNION
          { { [success |-> TRUE,
               channel_id |-> channel_id,
               channel_name |-> channel_config.name,
               amount |-> amount,
               rate |-> rate,
               fixed_fee |-> fixed_fee,
               calculated_fee |-> rounded_calculated,
               final_fee |-> rounded_final,
               fee_note |-> clamp.fee_note]
              : rounded_final \in RoundFinal(rounded_calculated) }
            : rounded_calculated \in Round2(calculated_fee) }

\* ------------------------------------------------------------------------
\* calculate_exchange_cost
\* ------------------------------------------------------------------------

\* faulty variant: the spread is applied in the customer's favour
ActualRateFavourable(market_rate, spread_rate) ==
  market_rate * (1000 + spread_rate)

\* market_rate * (1 - spread_rate), unrounded, in 1/1000000
ActualRate(market_rate, spread_rate) == market_rate * (1000 - spread_rate)

\* round(amount * market_rate, 2)
MarketAmount(amount, market_rate) == Round2(amount * market_rate * 10)

\* round(amount * actual_rate, 2), given round(market_amount, 2): the two
\* products are the same float when actual_rate is market_rate
ActualAmount(amount, market_rate, actual_rate, rounded_market) ==
  IF actual_rate = market_rate * 1000
  THEN {rounded_market}
  ELSE {100 * v : v \in MulRoundDiv(amount, actual_rate, 10000)}

\* faulty variant: the loss is taken from the rounded amounts
ExchangeLossOfRounded(amount, market_rate, actual_rate) ==
  UNION { { rounded_market - rounded_actual
            : rounded_actual \in ActualAmount(amount, market_rate,
                                              actual_rate, rounded_market) }
          : rounded_market \in MarketAmount(amount, market_rate) }

\* round(market_amount - actual_amount, 2) of the unrounded amounts
\* amount * market_rate and amount * actual_rate; the difference is formed
\* as amount * (market_rate - actual_rate) to stay within 32 bits
ExchangeLoss(amount, market_rate, actual_rate) ==
  {100 * v : v \in MulRoundDiv(amount, market_rate * 1000 - actual_rate,
                               10000)}

\* faulty variant: a currency whose table entry is below 1 is refused
NoMarketRateBelowOne(from_currency) ==
  \/ from_currency \notin DOMAIN EXCHANGE_RATES
  \/ EXCHANGE_RATES[from_currency] < 1000

\* from_currency not in EXCHANGE_RATES
NoMarketRate(from_currency) == from_currency \notin DOMAIN EXCHANGE_RATES

calculate_exchange_cost(amount, from_currency, spread_rate) ==
  IF NoMarketRate(from_currency)
  THEN {[success |-> FALSE, error |-> "unsupported_currency"]}
  ELSE
    LET market_rate == EXCHANGE_RATES[from_currency]
        actual_rate == ActualRate(market_rate, spread_rate)
    IN  UNION
        { { [success |-> TRUE,
             from_currency |-> from_currency,
             to_currency |-> "CNY",
             original_amount |-> amount,
             market_rate |-> market_rate,
             actual_rate |-> rounded_rate,
             spread_rate |-> spread_rate,
             market_amount |-> rounded_market,
             actual_amount |-> rounded_actual,
             exchange_loss |-> rounded_loss,
             loss_percentage |-> spread_rate * 10]
            : rounded_rate \in RoundDiv(actual_rate, 100),
              rounded_actual \in ActualAmount(amount, market_rate,
                                              actual_rate, rounded_market),
              rounded_loss \in ExchangeLoss(amount, market_rate,
                                            actual_rate) }
          : rounded_market \in MarketAmount(amount, market_rate) }

\* ------------------------------------------------------------------------
\* calculate_total_cost
\* ------------------------------------------------------------------------

\* the tail of calculate_total_cost: total_cost (unrounded, in 1/1000000)
\* and amount_cny are rounded into the result
\* faulty variant: the rate is computed whenever amount_cny is not zero
TotalCostRateNonZero(total_cost, amount_cny) ==
  IF amount_cny > 0
  THEN RoundDiv(total_cost, amount_cny \div 100)
  ELSE IF amount_cny < 0
  THEN RoundDiv(-total_cost, -(amount_cny \div 100))
  ELSE {0}

\* round(total_cost / amount_cny, 4) if amount_cny > 0, else 0
TotalCostRate(total_cost, amount_cny) ==
  IF amount_cny > 0
  THEN RoundDiv(total_cost, amount_cny \div 100)
  ELSE {0}

TotalCostRecord(partial, amount_cny, total_cost) ==
  { [success |-> TRUE,
     amount |-> partial.amount,
     currency |-> partial.currency,
     channel_id |-> partial.channel_id,
     fee |-> partial.fee,
     fee_rate |-> partial.fee_rate,
     exchange_loss |-> partial.exchange_loss,
     amount_cny |-> amount_cny,
     total_cost |-> 100 * rounded_total,
     total_cost_rate |-> rounded_rate]
    : rounded_total \in RoundDiv(total_cost, 10000),
      rounded_rate \in TotalCostRate(total_cost, amount_cny) }

\* faulty variant: the exchange loss is left out of the total
ForeignTotalCostFeeOnly(fee, actual_rate, exchange_loss) ==
  (fee \div 100) * actual_rate

\* fee_cny = fee * actual_rate; total_cost = fee_cny + exchange_loss,
\* unrounded, in 1/1000000
ForeignTotalCost(fee, actual_rate, exchange_loss) ==
  (fee \div 100) * actual_rate + exchange_loss * 100

\* faulty variant: the totals are filled in before the exchange result is
\* tested
ExchangeFailedTotal(amount, currency, channel_id, fee, fee_rate, error) ==
  [success |-> FALSE, amount |-> amount, currency |-> currency,
   channel_id |-> channel_id, fee |-> fee, fee_rate |-> fee_rate,
   error |-> error, total_cost |-> fee, total_cost_rate |-> 0]

\* the record returned when calculate_exchange_cost has failed: what was
\* filled in so far, with success = False and the exchange error
ExchangeFailed(amount, currency, channel_id, fee, fee_rate, error) ==
  [success |-> FALSE, amount |-> amount, currency |-> currency,
   channel_id |-> channel_id, fee |-> fee, fee_rate |-> fee_rate,
   error |-> error]

\* the result for one outcome of the fee step
TotalCostOfFee(amount, currency, channel_id, spread_rate, fee_result) ==
  IF ~fee_result.success
  THEN {fee_result}
  ELSE
    LET fee == fee_result.final_fee
        fee_rate == fee_result.rate
    IN
    IF currency # "CNY"
    THEN
      UNION
      { IF ~exchange_result.success
        THEN {ExchangeFailed(amount, currency, channel_id, fee, fee_rate,
                             exchange_result.error)}
        ELSE
          LET exchange_loss == exchange_result.exchange_loss
              amount_cny == exchange_result.actual_amount
              total_cost ==
                ForeignTotalCost(fee, exchange_result.actual_rate,
                                 exchange_loss)
          IN  TotalCostRecord(
                [amount |-> amount, currency |-> currency,
                 channel_id |-> channel_id, fee |-> fee,
                 fee_rate |-> fee_rate, exchange_loss |-> exchange_loss],
                amount_cny, total_cost)
        : exchange_result \in
            calculate_exchange_cost(amount, currency, spread_rate) }
    ELSE
      TotalCostRecord(
        [amount |-> amount, currency |-> currency,
         channel_id |-> channel_id, fee |-> fee,
         fee_rate |-> fee_rate, exchange_loss |-> 0],
        amount * 10000, fee * 100)

\* the exception calculate_total_cost ends with, "" when it returns
total_cost_exception(amount, currency, channel_id, spread_rate) ==
  channel_fee_exception(amount, channel_id, TRUE)

calculate_total_cost(amount, currency, channel_id, spread_rate) ==
  UNION { TotalCostOfFee(amount, currency, channel_id, spread_rate,
                         fee_result)
          : fee_result \in calculate_channel_fee(amount, channel_id, TRUE) }

\* ------------------------------------------------------------------------
\* compare_channel_fees
\* ------------------------------------------------------------------------

\* the entry appended for one outcome of calculate_total_cost
ResultEntry(channel_id, channel_config, cost_result) ==
  [channel_id |-> channel_id,
   channel_name |-> channel_config.name,
   fee |-> cost_result.fee,
   exchange_loss |-> Get(cost_result, "exchange_loss", 0),
   total_cost |-> cost_result.total_cost,
   total_cost_rate |-> cost_result.total_cost_rate]

\* the loop over channel_ids: one entry, in list order, for every id whose
\* channel supports the currency and whose total cost is computed;
\* cost_results[id] is what calculate_total_cost returns for that id
\* faulty variant: None and the empty list both select the whole catalog
CandidateIdsIfFalsy(ids_omitted, channel_ids) ==
  IF ids_omitted \/ channel_ids = <<>> THEN CatalogOrder ELSE channel_ids

\* if channel_ids is None: channel_ids = list(PAYMENT_CHANNELS.keys())
CandidateIds(ids_omitted, channel_ids) ==
  IF ids_omitted THEN CatalogOrder ELSE channel_ids

\* faulty variant: the catalog is appended to the caller's list
CallerListAfterExtended(ids_omitted, channel_ids) ==
  channel_ids \o CatalogOrder

\* the list object the caller passed, when the call has returned: the
\* parameter is rebound to a new list when it is None and only iterated
\* otherwise, so the caller's list is as it was
CallerListAfter(ids_omitted, channel_ids) == channel_ids

\* faulty variant: no channel is skipped for its currencies
SkippedNever(currency, channel_id) == FALSE

\* currency not in PAYMENT_CHANNELS.get(channel_id, {})
\*                   .get("supported_currencies", [])
Skipped(currency, channel_id) ==
  LET channel_config == Get(PAYMENT_CHANNELS, channel_id, EmptyDict)
      supported == Get(channel_config, "supported_currencies", {})
  IN  currency \notin supported

RECURSIVE CollectResults(_, _, _)
CollectResults(currency, channel_ids, cost_results) ==
  IF channel_ids = <<>>
  THEN <<>>
  ELSE
    LET channel_id == Head(channel_ids)
        rest == CollectResults(currency, Tail(channel_ids), cost_results)
        channel_config == Get(PAYMENT_CHANNELS, channel_id, EmptyDict)
    IN
    IF Skipped(currency, channel_id)
    THEN rest
    ELSE
      LET cost_result == cost_results[channel_id]
      IN  IF cost_result.success
          THEN <<ResultEntry(channel_id, channel_config, cost_result)>>
                 \o rest
          ELSE rest

\* the values calculate_total_cost(amount, currency, id) can return to the
\* loop, for a set of ids: the same value at every occurrence of an id
RECURSIVE CostResults(_, _, _)
CostResults(amount, currency, ids) ==
  IF ids = {}
  THEN {EmptyDict}
  ELSE
    LET id == CHOOSE x \in ids : TRUE
    IN  { (id :> cost_result) @@ others
          : cost_result \in calculate_total_cost(amount, currency, id, 5),
            others \in CostResults(amount, currency, ids \ {id}) }

\* x placed behind every element of the sorted list s whose key is <= x's
InsertAfterEqual(x, s) ==
  LET p == Cardinality({i \in 1..Len(s) : s[i].total_cost <= x.total_cost})
  IN  SubSeq(s, 1, p) \o <<x>> \o SubSeq(s, p + 1, Len(s))

\* x placed in front of the elements of s whose key is >= x's
InsertBeforeEqual(x, s) ==
  LET p == Cardinality({i \in 1..Len(s) : s[i].total_cost < x.total_cost})
  IN  SubSeq(s, 1, p) \o <<x>> \o SubSeq(s, p + 1, Len(s))

RECURSIVE StableSort(_)
StableSort(s) ==
  IF s = <<>> THEN <<>>
  ELSE InsertAfterEqual(s[Len(s)], StableSort(SubSeq(s, 1, Len(s) - 1)))

RECURSIVE UnstableSort(_)
UnstableSort(s) ==
  IF s = <<>> THEN <<>>
  ELSE InsertBeforeEqual(s[Len(s)], UnstableSort(SubSeq(s, 1, Len(s) - 1)))

\* faulty variant: the list is left in loop order
SortedByTotalCostNotSorted(results) == results

\* faulty variant: equal keys come out in reverse input order
SortedByTotalCostUnstable(results) == UnstableSort(results)

\* sorted(results, key=lambda x: x["total_cost"]); sorted() is stable
SortedByTotalCost(results) == StableSort(results)

\* for i, result in enumerate(results): result["rank"] = i + 1
\* (Python index i is position i + 1 of the sequence)
AddRank(results) ==
  [p \in 1..Len(results) |->
     [channel_id |-> results[p].channel_id,
      channel_name |-> results[p].channel_name,
      fee |-> results[p].fee,
      exchange_loss |-> results[p].exchange_loss,
      total_cost |-> results[p].total_cost,
      total_cost_rate |-> results[p].total_cost_rate,
      rank |-> (p - 1) + 1]]

\* the ids of the list for which the loop calls calculate_total_cost
CostedIds(currency, ids) ==
  {ids[p] : p \in {q \in 1..Len(ids) : ~Skipped(currency, ids[q])}}

\* the exception compare_channel_fees ends with, "" when it returns
compare_exception(amount, currency, ids_omitted, channel_ids) ==
  LET ids == CandidateIds(ids_omitted, channel_ids)
      raising == {id \in CostedIds(currency, ids) :
                    total_cost_exception(amount, currency, id, 5) # ""}
  IN  IF raising = {}
      THEN ""
      ELSE total_cost_exception(amount, currency,
                                CHOOSE id \in raising : TRUE, 5)

\* channel_ids is None (ids_omitted) or the list passed by the caller
compare_channel_fees(amount, currency, ids_omitted, channel_ids) ==
  LET ids == CandidateIds(ids_omitted, channel_ids)
  IN  { AddRank(SortedByTotalCost(CollectResults(currency, ids,
                                                 cost_results)))
        : cost_results \in
            CostResults(amount, currency, CostedIds(currency, ids)) }

\* the value of Python's None
None == [is_none |-> TRUE]

\* faulty variant: the last entry of the comparison is returned
FirstOrNoneLast(comparison) ==
  IF comparison # <<>> THEN comparison[Len(comparison)] ELSE None

\* comparison[0] if comparison else None
FirstOrNone(comparison) ==
  IF comparison # <<>> THEN comparison[1] ELSE None

find_cheapest_exception(amount, currency) ==
  compare_exception(amount, currency, TRUE, <<>>)

find_cheapest_channel(amount, currency) ==
  { FirstOrNone(comparison)
    : comparison \in compare_channel_fees(amount, currency, TRUE, <<>>) }

\* ------------------------------------------------------------------------
\* validate_amount (_02_utils.py)
\* ------------------------------------------------------------------------
\* A str is the sequence of its characters.  A finite number is m * 10^e,
\* held as [m, e]; a float is finite, nan, or an infinity.

\* sys.float_info.max is about 1.797 * 10^308
MaxFloatExp == 308

Finite(m, e) == [kind |-> "finite", m |-> m, e |-> e]

Nan == [kind |-> "nan"]

Inf(negative) == [kind |-> "inf", negative |-> negative]

\* the call that returned value / that raised exception
Returned(value) == [raised |-> "", value |-> value]

Raised(exception) == [raised |-> exception]

Digits == {"0", "7"}

DigitValue(c) == IF c = "7" THEN 7 ELSE 0

\* str.strip() of leading and trailing blanks, as float() does
RECURSIVE Strip(_)
Strip(s) ==
  IF s = <<>> THEN s
  ELSE IF Head(s) = " " THEN Strip(Tail(s))
  ELSE IF s[Len(s)] = " " THEN Strip(SubSeq(s, 1, Len(s) - 1))
  ELSE s

\* the value of a non-empty string of digits
RECURSIVE DecimalValue(_)
DecimalValue(s) ==
  IF s = <<>> THEN 0
  ELSE 10 * DecimalValue(SubSeq(s, 1, Len(s) - 1))
         + DigitValue(s[Len(s)])

\* float(amount): a float is itself, an int is converted unless it is
\* beyond the largest float (OverflowError), a str is parsed as a decimal
\* numeral after strip() (ValueError if it is not one), None is a
\* TypeError.  -0.0 is held as 0: it is not < 0.
ToFloat(amount) ==
  IF amount.type = "float"
  THEN Returned(amount.value)
  ELSE IF amount.type = "int"
  THEN IF /\ amount.m # 0
          /\ \/ amount.e > MaxFloatExp
             \/ amount.e = MaxFloatExp /\ (amount.m > 1 \/ amount.m < -1)
       THEN Raised("OverflowError")
       ELSE Returned(Finite(amount.m, amount.e))
  ELSE IF amount.type = "str"
  THEN LET s == Strip(amount.text)
           negative == s # <<>> /\ Head(s) = "-"
           digits == IF negative THEN Tail(s) ELSE s
       IN  IF digits # <<>> /\ \A i \in 1..Len(digits) : digits[i] \in Digits
           THEN Returned(Finite(IF negative
                                THEN -DecimalValue(digits)
                                ELSE DecimalValue(digits), 0))
           ELSE Raised("ValueError")
  ELSE Raised("TypeError")

\* amount_float < 0
LessThanZero(value) ==
  \/ value.kind = "finite" /\ value.m < 0
  \/ value.kind = "inf" /\ value.negative

\* try: float(amount), the test of the sign, return; except (ValueError,
\* TypeError): raise ValueError.  Any other exception leaves the function.
validate_amount(amount) ==
  LET amount_float == ToFloat(amount)
  IN  IF amount_float.raised \in {"ValueError", "TypeError"}
      THEN Raised("ValueError")
      ELSE IF amount_float.raised # ""
      THEN Raised(amount_float.raised)
      ELSE IF LessThanZero(amount_float.value)
      THEN Raised("ValueError")
      ELSE Returned(amount_float.value)

\* ------------------------------------------------------------------------
\* validate_currency (_02_utils.py)
\* ------------------------------------------------------------------------

\* str.upper() of one character
UpperChar(c) ==
  IF c = "u" THEN "U"
  ELSE IF c = "s" THEN "S"
  ELSE c

\* str.upper()
Upper(s) == [i \in 1..Len(s) |-> UpperChar(s[i])]

\* faulty variant: the code is returned as it was passed
validate_currency_unchanged(currency, supported_currencies) ==
  LET currency_upper == Upper(currency)
  IN  IF \A i \in 1..Len(supported_currencies) :
           supported_currencies[i] # currency_upper
      THEN Raised("ValueError")
      ELSE Returned(currency)

validate_currency(currency, supported_currencies) ==
  LET currency_upper == Upper(currency)
  IN  IF \A i \in 1..Len(supported_currencies) :
           supported_currencies[i] # currency_upper
      THEN Raised("ValueError")
      ELSE Returned(currency_upper)

\* ------------------------------------------------------------------------
\* Channel objects of _05_models.py
\* ------------------------------------------------------------------------

\* configurations handed to create_channel_from_config: those of the
\* catalog and one with a low rate under a minimum fee, each without a
\* "type" key and with every type the factory tells apart
FactoryConfigs ==
  LET lowrate == [name |-> "lowrate", base_rate |-> 10, fixed_fee |-> 0,
                  min_fee |-> 800000, max_fee |-> 0,
                  supported_currencies |-> {"USD"}, is_active |-> TRUE]
      untyped == ChannelConfigs \cup {lowrate}
  IN  untyped \cup
      { [type |-> t] @@ config : t \in {"bank", "wallet", "card", "base"},
                                config \in untyped }

\* the fields of a channel object that its fee depends on, as the
\* constructors set them
PaymentChannel(base_rate, fixed_fee, min_fee, max_fee) ==
  [class |-> "PaymentChannel", base_rate |-> base_rate,
   fixed_fee |-> fixed_fee, min_fee |-> min_fee, max_fee |-> max_fee]

BankChannel(base_rate, fixed_fee, min_fee, max_fee) ==
  [PaymentChannel(base_rate, fixed_fee, min_fee, max_fee)
     EXCEPT !.class = "BankChannel"]

WalletChannel(base_rate, fixed_fee, cashback_rate) ==
  [class |-> "WalletChannel", base_rate |-> base_rate,
   fixed_fee |-> fixed_fee, min_fee |-> 0, max_fee |-> 0,
   cashback_rate |-> cashback_rate]

CardChannel(base_rate, fixed_fee, min_fee, max_fee) ==
  [PaymentChannel(base_rate, fixed_fee, min_fee, max_fee)
     EXCEPT !.class = "CardChannel"]

create_channel_from_config(config) ==
  LET channel_type == Get(config, "type", "base")
  IN  IF channel_type = "bank"
      THEN BankChannel(config.base_rate, Get(config, "fixed_fee", 0),
                       Get(config, "min_fee", 0), Get(config, "max_fee", 0))
      ELSE IF channel_type = "wallet"
      THEN WalletChannel(config.base_rate, Get(config, "fixed_fee", 0), 0)
      ELSE IF channel_type = "card"
      THEN CardChannel(config.base_rate, Get(config, "fixed_fee", 0),
                       Get(config, "min_fee", 0), Get(config, "max_fee", 0))
      ELSE PaymentChannel(config.base_rate, Get(config, "fixed_fee", 0), 0, 0)

\* the fees of channel objects are not rounded; they are held in 1/100000
\* of a unit, so that nine tenths of a fee is a whole number
ObjectFeeUnit == 10

PaymentChannel_calculate_fee(self, amount) ==
  LET fee == ObjectFeeUnit * (amount * self.base_rate + self.fixed_fee)
      min_fee == ObjectFeeUnit * self.min_fee
      max_fee == ObjectFeeUnit * self.max_fee
      fee_after_min == IF min_fee > 0 /\ fee < min_fee THEN min_fee ELSE fee
  IN  IF max_fee > 0 /\ fee_after_min > max_fee
      THEN max_fee
      ELSE fee_after_min

BankChannel_calculate_fee(self, amount) ==
  LET base_fee == PaymentChannel_calculate_fee(self, amount)
  IN  \* base_fee * 0.9; base_fee is a multiple of ObjectFeeUnit
      IF amount > 50000 THEN base_fee - base_fee \div 10 ELSE base_fee

WalletChannel_calculate_fee(self, amount) ==
  LET fee == ObjectFeeUnit * (amount * self.base_rate + self.fixed_fee)
      cashback == ObjectFeeUnit * amount * self.cashback_rate
  IN  IF self.cashback_rate > 0
      THEN IF fee - cashback > 0 THEN fee - cashback ELSE 0
      ELSE fee

\* channel.calculate_fee(amount): the method of the object's class
calculate_fee(self, amount) ==
  IF self.class = "BankChannel" THEN BankChannel_calculate_fee(self, amount)
  ELSE IF self.class = "WalletChannel"
  THEN WalletChannel_calculate_fee(self, amount)
  ELSE PaymentChannel_calculate_fee(self, amount)

\* ------------------------------------------------------------------------
\* calculate_percentile of _02_utils.py
\* ------------------------------------------------------------------------

\* The interpolation is float arithmetic whose results are not decimals, so
\* here a float is a binary floating-point number, rounded to nearest, ties
\* to even, after every operation as IEEE 754 prescribes. It is held as an
\* integer count of 1/FloatScale. The significand has FloatPrecision bits
\* where Python's has 53.
FloatPrecision == 8

FloatScale == 65536

RECURSIVE Log2(_)
Log2(n) == IF n < 2 THEN 0 ELSE 1 + Log2(n \div 2)

\* n / d rounded to an integer, ties to the even one; n >= 0, d > 0
RoundHalfEven(n, d) ==
  LET q == n \div d
      r == n % d
  IN  IF 2 * r < d THEN q
      ELSE IF 2 * r > d THEN q + 1
      ELSE IF q % 2 = 0 THEN q ELSE q + 1

\* the float nearest to num / den, both in 1/FloatScale; num >= 0, den > 0
Float(num, den) ==
  LET k == Log2(num \div den)
      quantum == IF k >= FloatPrecision
                 THEN 2 ^ (k - FloatPrecision + 1)
                 ELSE 1
  IN  quantum * RoundHalfEven(num, den * quantum)

\* lists of numbers handed to calculate_percentile, and percentiles; the
\* last two percentiles lie outside 0..100
MaxValues == 3

Values == {0, 3, 7, 100}

ValueLists == UNION {[1..n -> Values] : n \in 0..MaxValues}

Percentiles == {0, 10, 25, 50, 100, 101, 150}

RECURSIVE sorted(_)
sorted(values) ==
  IF values = <<>> THEN <<>>
  ELSE LET rest == sorted(Tail(values))
           smaller == SelectSeq(rest, LAMBDA v : v < Head(values))
           others == SelectSeq(rest, LAMBDA v : v >= Head(values))
       IN  smaller \o <<Head(values)>> \o others

\* index = (len(sorted_values) - 1) * percentile / 100, in 1/FloatScale
PercentileIndex(values, percentile) ==
  Float((Len(values) - 1) * percentile * FloatScale, 100)

\* index.is_integer()
is_integer(index) == index % FloatScale = 0

\* the largest position of sorted_values (counted from 0) that the call
\* reads
LargestIndexRead(values, percentile) ==
  LET index == PercentileIndex(values, percentile)
      lower_index == index \div FloatScale
  IN  IF is_integer(index) THEN lower_index ELSE lower_index + 1

\* the exception calculate_percentile raises, "" if it returns
percentile_exception(values, percentile) ==
  IF values # <<>> /\ LargestIndexRead(values, percentile) > Len(values) - 1
  THEN "IndexError"
  ELSE ""

\* the value returned, in 1/FloatScale; sorted_values is indexed from 1
calculate_percentile(values, percentile) ==
  IF values = <<>> THEN 0
  ELSE
    LET sorted_values == sorted(values)
        index == PercentileIndex(values, percentile)
        lower_index == index \div FloatScale
        upper_index == lower_index + 1
        weight == Float(index - lower_index * FloatScale, 1)
        lower_part ==
          Float(sorted_values[lower_index + 1] * Float(FloatScale - weight, 1),
                1)
        upper_part == Float(sorted_values[upper_index + 1] * weight, 1)
    IN  IF is_integer(index)
        THEN sorted_values[lower_index + 1] * FloatScale
        ELSE Float(lower_part + upper_part, 1)

\* the caller's list after the call: sorted() builds a new list
ValuesAfter(values) == values

\* ------------------------------------------------------------------------
\* State machine
\* ------------------------------------------------------------------------

\* result while no call has returned a value
NoValue == [success |-> FALSE]

\* no Transaction has been made, no generator run and no menu is open, and
\* there are no callers
NoObjects ==
  /\ transaction = None
  /\ generator = [pc |-> "none"]
  /\ menu = [pc |-> "none"]
  /\ callers = EmptyDict

Init ==
  /\ PAYMENT_CHANNELS \in Catalogs
  /\ TIERED_RATES \in TierTables
  /\ EXCHANGE_RATES = RateTable
  /\ call = [op |-> "none"]
  /\ result = NoValue
  /\ raised = ""
  /\ NoObjects

Tables == <<PAYMENT_CHANNELS, TIERED_RATES, EXCHANGE_RATES>>

Objects == <<transaction, generator, menu, callers>>

\* no call is in progress: the caller may start one
Idle == call.op = "none"

CallTieredRate ==
  /\ Idle
  /\ \E amount \in Amounts, channel_id \in ChannelIds :
    /\ call' = [op |-> "calculate_tiered_rate", amount |-> amount,
                channel_id |-> channel_id]
    /\ raised' = tiered_rate_exception(amount, channel_id)
    /\ result' = IF raised' # ""
                 THEN NoValue
                 ELSE [rate |-> calculate_tiered_rate(amount, channel_id)]
    /\ UNCHANGED <<Tables, Objects>>

CallChannelFee ==
  /\ Idle
  /\ \E amount \in Amounts, channel_id \in ChannelIds,
        use_tiered_rate \in BOOLEAN :
    /\ call' = [op |-> "calculate_channel_fee", amount |-> amount,
                channel_id |-> channel_id,
                use_tiered_rate |-> use_tiered_rate]
    /\ raised' = channel_fee_exception(amount, channel_id,
                                       use_tiered_rate)
    /\ result' \in IF raised' # ""
                   THEN {NoValue}
                   ELSE calculate_channel_fee(amount, channel_id,
                                              use_tiered_rate)
    /\ UNCHANGED <<Tables, Objects>>

CallExchangeCost ==
  /\ Idle
  /\ \E amount \in CostAmounts, from_currency \in Currencies,
        spread_rate \in SpreadRates :
    /\ call' = [op |-> "calculate_exchange_cost", amount |-> amount,
                from_currency |-> from_currency,
                spread_rate |-> spread_rate]
    /\ raised' = ""
    /\ result' \in calculate_exchange_cost(amount, from_currency,
                                          spread_rate)
    /\ UNCHANGED <<Tables, Objects>>

CallTotalCost ==
  /\ Idle
  /\ \E amount \in CostAmounts, currency \in Currencies,
        channel_id \in ChannelIds, spread_rate \in SpreadRates :
    /\ call' = [op |-> "calculate_total_cost", amount |-> amount,
                currency |-> currency, channel_id |-> channel_id,
                spread_rate |-> spread_rate]
    /\ raised' = total_cost_exception(amount, currency, channel_id,
                                      spread_rate)
    /\ result' \in IF raised' # ""
                   THEN {NoValue}
                   ELSE calculate_total_cost(amount, currency, channel_id,
                                             spread_rate)
    /\ UNCHANGED <<Tables, Objects>>

\* the channel_ids lists a caller passes
IdLists == UNION {[1..n -> ChannelIds] : n \in 0..MaxIds}

CallCompare ==
  /\ Idle
  /\ \E amount \in CostAmounts, currency \in Currencies,
        ids_omitted \in BOOLEAN :
     \E channel_ids \in IF ids_omitted THEN {<<>>} ELSE IdLists :
    /\ call' = [op |-> "compare_channel_fees", amount |-> amount,
                currency |-> currency, ids_omitted |-> ids_omitted,
                channel_ids |-> channel_ids,
                channel_ids_after |->
                  CallerListAfter(ids_omitted, channel_ids)]
    /\ raised' = compare_exception(amount, currency, ids_omitted,
                                   channel_ids)
    /\ result' \in IF raised' # ""
                   THEN {NoValue}
                   ELSE compare_channel_fees(amount, currency, ids_omitted,
                                             channel_ids)
    /\ UNCHANGED <<Tables, Objects>>

CallFindCheapest ==
  /\ Idle
  /\ \E amount \in CostAmounts, currency \in Currencies :
    /\ call' = [op |-> "find_cheapest_channel", amount |-> amount,
                currency |-> currency]
    /\ raised' = find_cheapest_exception(amount, currency)
    /\ result' \in IF raised' # ""
                   THEN {NoValue}
                   ELSE find_cheapest_channel(amount, currency)
    /\ UNCHANGED <<Tables, Objects>>

\* create_channel_from_config(channel_id, config).calculate_fee(amount)
CallObjectFee ==
  /\ Idle
  /\ \E config \in FactoryConfigs, amount \in Amounts :
       LET channel == create_channel_from_config(config)
       IN  /\ call' = [op |-> "channel.calculate_fee", config |-> config,
                       amount |-> amount]
           /\ raised' = ""
           /\ result' = [channel |-> channel,
                         fee |-> calculate_fee(channel, amount)]
           /\ UNCHANGED <<Tables, Objects>>

CallPercentile ==
  /\ Idle
  /\ \E values \in ValueLists, percentile \in Percentiles :
    /\ call' = [op |-> "calculate_percentile", values |-> values,
                percentile |-> percentile,
                values_after |-> ValuesAfter(values)]
    /\ raised' = percentile_exception(values, percentile)
    /\ result' = IF raised' # ""
                 THEN NoValue
                 ELSE [value |-> calculate_percentile(values, percentile)]
    /\ UNCHANGED <<Tables, Objects>>

\* strings of at most MaxLen characters
Strings(chars) == UNION {[1..n -> chars] : n \in 0..MaxLen}

\* the values passed to validate_amount: floats, ints, strings and None
AmountInputs ==
  {[type |-> "float", value |-> v]
     : v \in {Finite(m, 0) : m \in {-3, 0, 5}}
              \cup {Nan, Inf(FALSE), Inf(TRUE)}}
  \cup {[type |-> "int", m |-> m, e |-> e]
          : m \in {-2, -1, 0, 1, 2},
            e \in {0, MaxFloatExp, MaxFloatExp + 1}}
  \cup {[type |-> "str", text |-> s] : s \in Strings({"-", "0", "7", "x", " "})}
  \cup {[type |-> "NoneType"]}

CallValidateAmount ==
  /\ Idle
  /\ \E amount \in AmountInputs :
       LET outcome == validate_amount(amount)
       IN  /\ call' = [op |-> "validate_amount", amount |-> amount]
           /\ raised' = outcome.raised
           /\ result' = IF outcome.raised = ""
                        THEN [value |-> outcome.value]
                        ELSE NoValue
           /\ UNCHANGED <<Tables, Objects>>

\* the supported_currencies lists passed to validate_currency
SupportedLists ==
  { <<>>,
    << <<"U", "S">> >>,
    << <<"U", "S", "1">>, <<"U">> >>,
    << <<"u", "s">>, <<>> >> }

CallValidateCurrency ==
  /\ Idle
  /\ \E currency \in Strings({"u", "U", "s", "1"}),
        supported_currencies \in SupportedLists :
       LET outcome == validate_currency(currency, supported_currencies)
       IN  /\ call' = [op |-> "validate_currency", currency |-> currency,
                       supported_currencies |-> supported_currencies]
           /\ raised' = outcome.raised
           /\ result' = IF outcome.raised = ""
                        THEN [value |-> outcome.value]
                        ELSE NoValue
           /\ UNCHANGED <<Tables, Objects>>

\* the caller has used the returned value and may call again
Return ==
  /\ ~Idle
  /\ call' = [op |-> "none"]
  /\ result' = NoValue
  /\ raised' = ""
  /\ UNCHANGED <<Tables, Objects>>

Next ==
  \/ CallTieredRate
  \/ CallChannelFee
  \/ CallExchangeCost
  \/ CallTotalCost
  \/ CallCompare
  \/ CallFindCheapest
  \/ CallValidateAmount
  \/ CallValidateCurrency
  \/ CallObjectFee
  \/ CallPercentile
  \/ Return

Spec == Init /\ [][Next]_vars

\* the tables of the bank_transfer scenario and no call in progress: the
\* start of the specifications below, which leave both alone
SpecCatalog ==
  CHOOSE c \in Catalogs :
    c["swift"].name = "swift" /\ c["bank_transfer"].name = "plain"

NoCall ==
  /\ PAYMENT_CHANNELS = SpecCatalog
  /\ TIERED_RATES = [bank_transfer |-> SpecTiers]
  /\ EXCHANGE_RATES = RateTable
  /\ call = [op |-> "none"]
  /\ result = NoValue
  /\ raised = ""

\* ------------------------------------------------------------------------
\* Transaction of _05_models.py
\* ------------------------------------------------------------------------

\* arguments of the constructor and the methods
TransactionAmounts == {100, 1000}

TransactionCurrencies == {"USD", "JPY"}

BaseRates == {150, 200}

FixedFees == {0, 2500}

Reasons == {"Unknown error", "timeout"}

\* the attributes __init__ sets, and the two that complete() and fail()
\* add; <<>> is None or an attribute not yet set, <<v>> the value v.
\* fee is in 1/10000 of a unit, amount_cny in 1/1000
Transaction(amount, currency, channel_id) ==
  [amount |-> amount, currency |-> currency, channel_id |-> channel_id,
   transaction_type |-> "payment", status |-> "pending",
   fee |-> <<>>, fee_rate |-> <<>>, amount_cny |-> <<>>,
   total_cost |-> <<>>, completed_at |-> <<>>, failure_reason |-> <<>>]

Transaction_calculate_fee(self, base_rate, fixed_fee) ==
  [self EXCEPT !.fee = <<self.amount * base_rate + fixed_fee>>,
               !.fee_rate = <<base_rate>>]

Transaction_set_converted_amount(self, exchange_rate) ==
  [self EXCEPT !.amount_cny = <<self.amount * exchange_rate>>]

Transaction_complete(self) ==
  [self EXCEPT !.status = "completed", !.completed_at = <<"now">>]

\* faulty variant: a failed transaction is queued again
Transaction_fail_requeue(self, reason) ==
  [self EXCEPT !.status = "pending", !.failure_reason = <<reason>>]

Transaction_fail(self, reason) ==
  [self EXCEPT !.status = "failed", !.failure_reason = <<reason>>]

NewTransaction ==
  /\ transaction = None
  /\ \E amount \in TransactionAmounts, currency \in TransactionCurrencies :
       transaction' = [method |-> "__init__",
                       self |-> Transaction(amount, currency, "swift")]
  /\ UNCHANGED <<Tables, call, result, raised, generator, menu, callers>>

TransactionCalculateFee ==
  /\ transaction # None
  /\ \E base_rate \in BaseRates, fixed_fee \in FixedFees :
       transaction' =
         [method |-> "calculate_fee",
          self |-> Transaction_calculate_fee(transaction.self, base_rate,
                                             fixed_fee)]
  /\ UNCHANGED <<Tables, call, result, raised, generator, menu, callers>>

TransactionSetConvertedAmount ==
  /\ transaction # None
  /\ transaction' =
       [method |-> "set_converted_amount",
        self |-> Transaction_set_converted_amount(
                   transaction.self,
                   Get(EXCHANGE_RATES, transaction.self.currency, 1000))]
  /\ UNCHANGED <<Tables, call, result, raised, generator, menu, callers>>

TransactionComplete ==
  /\ transaction # None
  /\ transaction' = [method |-> "complete",
                     self |-> Transaction_complete(transaction.self)]
  /\ UNCHANGED <<Tables, call, result, raised, generator, menu, callers>>

TransactionFail ==
  /\ transaction # None
  /\ \E reason \in Reasons :
       transaction' = [method |-> "fail",
                       self |-> Transaction_fail(transaction.self, reason)]
  /\ UNCHANGED <<Tables, call, result, raised, generator, menu, callers>>

TransactionInit ==
  /\ NoCall
  /\ NoObjects

TransactionNext ==
  \/ NewTransaction
  \/ TransactionCalculateFee
  \/ TransactionSetConvertedAmount
  \/ TransactionComplete
  \/ TransactionFail

TransactionSpec == TransactionInit /\ [][TransactionNext]_vars

\* ------------------------------------------------------------------------
\* generate_transactions_by_total of _04_data_generator.py
\* ------------------------------------------------------------------------

\* target_total_amount arguments, in whole units; the last leaves a
\* remainder of SmallRemainder after MaxTransactions amounts of
\* MinSingleAmount
Targets == {-5, 0, 999, 1000, 1500, 120000, 1001000}

\* the numbers of the loop
SmallRemainder == 1000

MinSingleAmount == 100

MaxSingleAmount == 50000

MaxTransactions == 10000

\* faulty variant: random amounts are drawn from 0 upwards
IterationAmountsFromZero(remaining) ==
  LET max_possible == IF remaining < MaxSingleAmount
                      THEN remaining
                      ELSE MaxSingleAmount
  IN  IF remaining < SmallRemainder
      THEN {remaining}
      ELSE {0, max_possible}

\* the amounts one iteration can add: the remainder, or what
\* random.uniform(100, max_possible) draws, of which the model takes the
\* two ends; max_possible is min(remaining, 50000)
IterationAmounts(remaining) ==
  LET max_possible == IF remaining < MaxSingleAmount
                      THEN remaining
                      ELSE MaxSingleAmount
  IN  IF remaining < SmallRemainder
      THEN {remaining}
      ELSE {MinSingleAmount, max_possible}

\* the call: transactions = [] (held as its length), current_total = 0
GenerateByTotal ==
  /\ generator.pc = "none"
  /\ \E target_total_amount \in Targets :
       generator' = [pc |-> "while",
                     target_total_amount |-> target_total_amount,
                     current_total |-> 0, transactions |-> 0, amount |-> 0]
  /\ UNCHANGED <<Tables, call, result, raised, transaction, menu, callers>>

\* one pass through the body of the while loop, to the break or back to
\* the test
LoopIteration ==
  /\ generator.pc = "while"
  /\ generator.current_total < generator.target_total_amount
  /\ LET remaining == generator.target_total_amount - generator.current_total
     IN  \E amount \in IterationAmounts(remaining) :
           generator' =
             [generator EXCEPT
                !.amount = amount,
                !.transactions = @ + 1,
                !.current_total = @ + amount,
                !.pc = IF generator.transactions + 1 > MaxTransactions
                       THEN "return"
                       ELSE "while"]
  /\ UNCHANGED <<Tables, call, result, raised, transaction, menu, callers>>

\* the test of the while loop fails
LoopExit ==
  /\ generator.pc = "while"
  /\ ~(generator.current_total < generator.target_total_amount)
  /\ generator' = [generator EXCEPT !.pc = "return"]
  /\ UNCHANGED <<Tables, call, result, raised, transaction, menu, callers>>

GeneratorInit ==
  /\ NoCall
  /\ NoObjects

GeneratorNext ==
  \/ GenerateByTotal
  \/ LoopIteration
  \/ LoopExit

\* the interpreter keeps running the loop
GeneratorSpec ==
  GeneratorInit /\ [][GeneratorNext]_vars /\ WF_vars(GeneratorNext)

\* ------------------------------------------------------------------------
\* interactive_mode of _09_main.py
\* ------------------------------------------------------------------------

\* PAYMENT_CHANNELS with the type tag of every configuration
TypedCatalogs ==
  { [id \in CatalogIds |-> [type |-> "bank"] @@ c[id]] : c \in Catalogs }

\* what the user types: at the menu prompt, as a count, as an amount (a
\* sequence of characters) and as a currency
Choices == {"0", "1", "2", "3", "4", "9", ""}

CountTexts == {<<>>, <<"7">>, <<"x">>}

AmountTexts == {<<>>, <<" ">>, <<"7">>, <<"0">>, <<"-", "7">>, <<"x">>}

CurrencyTexts == {"", "usd", "USD", "JPY", "XXX"}

\* str.upper() of a currency text
str_upper(text) == IF text = "usd" THEN "USD" ELSE text

\* the keys of the recommended entry that option 3 prints, in order
DisplayedFields == <<"channel_name", "avg_fee_rate", "estimated_fee">>

\* how a pass through the loop body ends: at the prompt again, having shown
\* something, or with an exception that nothing catches
Shown(text) == [pc |-> "prompt", shown |-> text, exception |-> ""]

Uncaught(exception) ==
  [pc |-> "raised", shown |-> "", exception |-> exception]

\* options 1 and 2: int(count) of a non-empty text inside try / except
\* ValueError; main and run_data_generation are taken to return
CountOutcome(count) ==
  IF count = <<>> THEN Shown("done")
  ELSE IF ToFloat([type |-> "str", text |-> count]).raised = "ValueError"
  THEN Shown("invalid_number")
  ELSE Shown("done")

\* the three prints of the recommended entry
DisplayOutcome(entry) ==
  IF \A i \in 1..Len(DisplayedFields) : DisplayedFields[i] \in DOMAIN entry
  THEN Shown("recommendation")
  ELSE Uncaught("KeyError")

\* option 3 after the two inputs: the ways the pass can end
QueryOutcomes(amount_text, currency_text) ==
  LET amount_str == Strip(amount_text)
      currency == str_upper(currency_text)
      amount == ToFloat([type |-> "str", text |-> amount_str])
      exception == find_cheapest_exception(amount.value.m, currency)
  IN  IF amount_str = <<>> \/ currency = ""
      THEN {Shown("empty_input")}
      ELSE IF amount.raised = "ValueError"
      THEN {Shown("invalid_amount")}
      ELSE IF amount.value.m <= 0
      THEN {Shown("not_positive")}
      ELSE IF exception = "ValueError"
      THEN {Shown("invalid_amount")}
      ELSE IF exception # ""
      THEN {Uncaught(exception)}
      ELSE { IF entry # None
             THEN DisplayOutcome(entry)
             ELSE Shown("not_found")
             : entry \in find_cheapest_channel(amount.value.m, currency) }

\* option 4: three keys of every configuration are printed
ConfigOutcome ==
  IF \A id \in DOMAIN PAYMENT_CHANNELS :
       {"name", "type", "base_rate"} \subseteq DOMAIN PAYMENT_CHANNELS[id]
  THEN Shown("configuration")
  ELSE Uncaught("KeyError")

\* print_header(), then the first prompt
OpenMenu ==
  /\ menu.pc = "none"
  /\ menu' = [Shown("header") EXCEPT !.pc = "prompt"] @@ [choice |-> ""]
  /\ UNCHANGED <<Tables, call, result, raised, transaction, generator, callers>>

\* each action below is one pass through the loop body for one choice
ChooseExit ==
  /\ menu.pc = "prompt"
  /\ menu' = [pc |-> "ended", shown |-> "goodbye", exception |-> "",
              choice |-> "0"]
  /\ UNCHANGED <<Tables, call, result, raised, transaction, generator, callers>>

ChooseAnalysis ==
  /\ menu.pc = "prompt"
  /\ \E count \in CountTexts :
       menu' = CountOutcome(count) @@ [choice |-> "1"]
  /\ UNCHANGED <<Tables, call, result, raised, transaction, generator, callers>>

ChooseGeneration ==
  /\ menu.pc = "prompt"
  /\ \E count \in CountTexts :
       menu' = CountOutcome(count) @@ [choice |-> "2"]
  /\ UNCHANGED <<Tables, call, result, raised, transaction, generator, callers>>

ChooseQuery ==
  /\ menu.pc = "prompt"
  /\ \E amount_text \in AmountTexts, currency_text \in CurrencyTexts :
       \E outcome \in QueryOutcomes(amount_text, currency_text) :
         menu' = outcome @@ [choice |-> "3", amount |-> amount_text,
                             currency |-> currency_text]
  /\ UNCHANGED <<Tables, call, result, raised, transaction, generator, callers>>

ChooseConfiguration ==
  /\ menu.pc = "prompt"
  /\ menu' = ConfigOutcome @@ [choice |-> "4"]
  /\ UNCHANGED <<Tables, call, result, raised, transaction, generator, callers>>

ChooseOther ==
  /\ menu.pc = "prompt"
  /\ \E choice \in Choices \ {"0", "1", "2", "3", "4"} :
       menu' = Shown("invalid_option") @@ [choice |-> choice]
  /\ UNCHANGED <<Tables, call, result, raised, transaction, generator, callers>>

MenuInit ==
  /\ PAYMENT_CHANNELS \in TypedCatalogs
  /\ TIERED_RATES \in TierTables
  /\ EXCHANGE_RATES = RateTable
  /\ call = [op |-> "none"]
  /\ result = NoValue
  /\ raised = ""
  /\ NoObjects

MenuNext ==
  \/ OpenMenu
  \/ ChooseExit
  \/ ChooseAnalysis
  \/ ChooseGeneration
  \/ ChooseQuery
  \/ ChooseConfiguration
  \/ ChooseOther

MenuSpec == MenuInit /\ [][MenuNext]_vars

\* ------------------------------------------------------------------------
\* Several callers of _03_rate_calculator.py at once
\* ------------------------------------------------------------------------
\* Each caller has its own frame: its arguments, and in compare_channel_fees
\* the local list results and the position of the for loop. The steps of
\* different callers interleave in any order.

Callers == {"c1", "c2"}

ConcurrentAmounts == {100, 1000}

ConcurrentCurrencies == {"USD", "EUR"}

\* channel_ids arguments: None, or a list
ConcurrentIdLists ==
  { [ids_omitted |-> TRUE, channel_ids |-> <<>>],
    [ids_omitted |-> FALSE, channel_ids |-> <<"swift">>],
    [ids_omitted |-> FALSE, channel_ids |-> <<"bank_transfer", "swift">>] }

\* a caller between calls
NotCalling == [pc |-> "idle"]

\* faulty variant: results is one list of the module, shared by the calls
\* in progress
LocalResultsShared(frames, caller) ==
  LET others == {c \in Callers \ {caller} : frames[c].pc = "for"}
  IN  IF others = {}
      THEN frames[caller].results
      ELSE frames[CHOOSE c \in others : TRUE].results

\* results as the caller's call sees it: a local variable of its frame
LocalResults(frames, caller) == frames[caller].results

\* the frame of a call that is over
Finished(frame, exception, value) ==
  [frame EXCEPT !.pc = "done", !.raised = exception, !.result = value]

BeginFee(caller) ==
  /\ callers[caller] = NotCalling
  /\ \E amount \in ConcurrentAmounts, channel_id \in CatalogIds :
       callers' = [callers EXCEPT ![caller] =
                     [pc |-> "fee", op |-> "calculate_channel_fee",
                      amount |-> amount, channel_id |-> channel_id,
                      raised |-> "", result |-> NoValue]]
  /\ UNCHANGED <<Tables, call, result, raised, transaction, generator, menu>>

FinishFee(caller) ==
  /\ callers[caller].pc = "fee"
  /\ LET frame == callers[caller]
         exception == channel_fee_exception(frame.amount, frame.channel_id,
                                            TRUE)
     IN  \E value \in IF exception # ""
                      THEN {NoValue}
                      ELSE calculate_channel_fee(frame.amount,
                                                 frame.channel_id, TRUE) :
           callers' = [callers EXCEPT ![caller] =
                         Finished(frame, exception, value)]
  /\ UNCHANGED <<Tables, call, result, raised, transaction, generator, menu>>

BeginExchange(caller) ==
  /\ callers[caller] = NotCalling
  /\ \E amount \in ConcurrentAmounts, currency \in ConcurrentCurrencies :
       callers' = [callers EXCEPT ![caller] =
                     [pc |-> "exchange", op |-> "calculate_exchange_cost",
                      amount |-> amount, currency |-> currency,
                      raised |-> "", result |-> NoValue]]
  /\ UNCHANGED <<Tables, call, result, raised, transaction, generator, menu>>

FinishExchange(caller) ==
  /\ callers[caller].pc = "exchange"
  /\ LET frame == callers[caller]
     IN  \E value \in calculate_exchange_cost(frame.amount, frame.currency,
                                              5) :
           callers' = [callers EXCEPT ![caller] = Finished(frame, "", value)]
  /\ UNCHANGED <<Tables, call, result, raised, transaction, generator, menu>>

\* results = []; channel_ids rebound when it is None
BeginCompare(caller) ==
  /\ callers[caller] = NotCalling
  /\ \E amount \in ConcurrentAmounts, currency \in ConcurrentCurrencies,
        list \in ConcurrentIdLists :
       callers' = [callers EXCEPT ![caller] =
                     [pc |-> "for", op |-> "compare_channel_fees",
                      amount |-> amount, currency |-> currency,
                      ids_omitted |-> list.ids_omitted,
                      channel_ids |-> list.channel_ids,
                      ids |-> CandidateIds(list.ids_omitted,
                                           list.channel_ids),
                      position |-> 1, results |-> <<>>,
                      raised |-> "", result |-> NoValue]]
  /\ UNCHANGED <<Tables, call, result, raised, transaction, generator, menu>>

\* one pass through the body of the for loop
LoopStep(caller) ==
  /\ callers[caller].pc = "for"
  /\ callers[caller].position <= Len(callers[caller].ids)
  /\ LET frame == callers[caller]
         channel_id == frame.ids[frame.position]
         channel_config == Get(PAYMENT_CHANNELS, channel_id, EmptyDict)
         exception == total_cost_exception(frame.amount, frame.currency,
                                           channel_id, 5)
         results == LocalResults(callers, caller)
     IN  IF Skipped(frame.currency, channel_id)
         THEN callers' = [callers EXCEPT ![caller].position = @ + 1]
         ELSE IF exception # ""
         THEN callers' = [callers EXCEPT ![caller] =
                            Finished(frame, exception, NoValue)]
         ELSE \E cost_result \in calculate_total_cost(
                                   frame.amount, frame.currency,
                                   channel_id, 5) :
                callers' =
                  [callers EXCEPT
                     ![caller].position = @ + 1,
                     ![caller].results =
                       IF cost_result.success
                       THEN Append(results,
                                   ResultEntry(channel_id, channel_config,
                                               cost_result))
                       ELSE results]
  /\ UNCHANGED <<Tables, call, result, raised, transaction, generator, menu>>

\* results = sorted(results, ...)
SortStep(caller) ==
  /\ callers[caller].pc = "for"
  /\ callers[caller].position > Len(callers[caller].ids)
  /\ callers' = [callers EXCEPT
                   ![caller].pc = "rank",
                   ![caller].results =
                     SortedByTotalCost(LocalResults(callers, caller))]
  /\ UNCHANGED <<Tables, call, result, raised, transaction, generator, menu>>

\* the ranks are added and the list is returned
RankStep(caller) ==
  /\ callers[caller].pc = "rank"
  /\ callers' = [callers EXCEPT ![caller] =
                   Finished(callers[caller], "",
                            AddRank(LocalResults(callers, caller)))]
  /\ UNCHANGED <<Tables, call, result, raised, transaction, generator, menu>>

\* the caller has its result and may call again
ReturnTo(caller) ==
  /\ callers[caller].pc = "done"
  /\ callers' = [callers EXCEPT ![caller] = NotCalling]
  /\ UNCHANGED <<Tables, call, result, raised, transaction, generator, menu>>

ConcurrentInit ==
  /\ NoCall
  /\ transaction = None
  /\ generator = [pc |-> "none"]
  /\ menu = [pc |-> "none"]
  /\ callers = [caller \in Callers |-> NotCalling]

ConcurrentNext ==
  \E caller \in Callers :
    \/ BeginFee(caller)
    \/ FinishFee(caller)
    \/ BeginExchange(caller)
    \/ FinishExchange(caller)
    \/ BeginCompare(caller)
    \/ LoopStep(caller)
    \/ SortStep(caller)
    \/ RankStep(caller)
    \/ ReturnTo(caller)

ConcurrentSpec == ConcurrentInit /\ [][ConcurrentNext]_vars

\* ------------------------------------------------------------------------
\* Properties of calculate_channel_fee and calculate_tiered_rate
\* ------------------------------------------------------------------------

\* a successful calculate_channel_fee has returned
FeeReturned == call.op = "calculate_channel_fee" /\ result.success

\* the configuration of the channel of the current call
CallConfig == PAYMENT_CHANNELS[call.channel_id]

CallMinFee == Get(CallConfig, "min_fee", 0)

CallMaxFee == Get(CallConfig, "max_fee", 0)

\* C1 as stated: whenever the channel's min_fee is positive, a successful
\* calculate_channel_fee returns final_fee >= min_fee, whatever max_fee is.
C1_Original ==
  (FeeReturned /\ CallMinFee > 0) => result.final_fee >= CallMinFee

\* C1: when the channel's min_fee is positive and a whole number of cents,
\* and max_fee is either not positive or at least min_fee, a successful
\* calculate_channel_fee returns final_fee >= min_fee.
C1_MinFeeRespected ==
  ( /\ FeeReturned
    /\ CallMinFee > 0
    /\ CallMinFee % 100 = 0
    /\ (CallMaxFee <= 0 \/ CallMaxFee >= CallMinFee) )
  => result.final_fee >= CallMinFee

\* the minimum clamp has replaced a smaller raw fee, on a channel that also
\* has a maximum
C1_Witness ==
  /\ FeeReturned
  /\ CallMinFee > 0
  /\ CallMinFee % 100 = 0
  /\ CallMaxFee >= CallMinFee
  /\ result.fee_note = "min_fee_applied"
  /\ result.calculated_fee < CallMinFee
  /\ result.final_fee = CallMinFee

\* C2 as stated: whenever the channel's max_fee is positive, a successful
\* calculate_channel_fee returns final_fee <= max_fee, whatever min_fee is.
C2_Original ==
  (FeeReturned /\ CallMaxFee > 0) => result.final_fee <= CallMaxFee

\* C2: when the channel's max_fee is positive and a whole number of cents,
\* and min_fee is either not positive or at most max_fee, a successful
\* calculate_channel_fee returns final_fee <= max_fee.
C2_MaxFeeRespected ==
  ( /\ FeeReturned
    /\ CallMaxFee > 0
    /\ CallMaxFee % 100 = 0
    /\ (CallMinFee <= 0 \/ CallMinFee <= CallMaxFee) )
  => result.final_fee <= CallMaxFee

\* the maximum clamp has replaced a larger raw fee
C2_Witness ==
  /\ FeeReturned
  /\ CallMaxFee > 0
  /\ CallMaxFee % 100 = 0
  /\ (CallMinFee <= 0 \/ CallMinFee <= CallMaxFee)
  /\ result.fee_note = "max_fee_applied"
  /\ result.calculated_fee > CallMaxFee
  /\ result.final_fee = CallMaxFee

\* v is n / d rounded to a nearest integer (d > 0)
NearestTo(v, n, d) == 2 * (v * d - n) <= d /\ 2 * (n - v * d) <= d

\* the channel of the current call has no tier list and no fee limits
BaseRateOnly ==
  /\ call.channel_id \notin DOMAIN TIERED_RATES
  /\ CallMinFee = 0
  /\ CallMaxFee = 0

\* C3: for amount > 0 on an active channel without tier list, min_fee and
\* max_fee, calculate_channel_fee returns rate = base_rate and
\* final_fee = calculated_fee = amount * base_rate + fixed_fee rounded to
\* two decimals, with an empty fee_note.
C3_BaseRateFee ==
  (FeeReturned /\ call.amount > 0 /\ BaseRateOnly)
  => /\ result.rate = CallConfig.base_rate
     /\ result.final_fee = result.calculated_fee
     /\ result.final_fee % 100 = 0
     /\ NearestTo(result.final_fee \div 100,
                  call.amount * CallConfig.base_rate
                    + Get(CallConfig, "fixed_fee", 0),
                  100)
     /\ result.fee_note = ""

\* such a call on a channel that charges a fixed fee, whose raw fee has
\* more than two decimals
C3_Witness ==
  /\ FeeReturned
  /\ call.amount > 0
  /\ BaseRateOnly
  /\ Get(CallConfig, "fixed_fee", 0) > 0
  /\ (call.amount * CallConfig.base_rate) % 100 # 0
  /\ result.final_fee > Get(CallConfig, "fixed_fee", 0)

\* rate is the rate of the first tier, in list order, whose max_amount is
\* >= amount, and the last tier's rate when there is no such tier
FirstTierRate(rate, amount, tiers) ==
  \/ \E i \in 1..Len(tiers) :
       /\ tiers[i].max_amount >= amount
       /\ \A j \in 1..(i - 1) : tiers[j].max_amount < amount
       /\ rate = tiers[i].rate
  \/ /\ \A i \in 1..Len(tiers) : tiers[i].max_amount < amount
     /\ rate = tiers[Len(tiers)].rate

\* C4: with use_tiered_rate and a tier list, the rate used is that of the
\* first tier whose max_amount >= amount (10000 against 10000/50000/
\* 100000/inf gives 0.015), the last tier's when amount exceeds every
\* bound; otherwise the rate used is the channel's base_rate.
C4_RateSelection ==
  /\ FeeReturned =>
       IF call.use_tiered_rate /\ call.channel_id \in DOMAIN TIERED_RATES
       THEN FirstTierRate(result.rate, call.amount,
                          TIERED_RATES[call.channel_id])
       ELSE result.rate = CallConfig.base_rate
  /\ ( /\ FeeReturned
       /\ call.use_tiered_rate
       /\ call.channel_id \in DOMAIN TIERED_RATES
       /\ TIERED_RATES[call.channel_id] = SpecTiers
       /\ call.amount = 10000 )
     => result.rate = 150
  /\ ( /\ call.op = "calculate_tiered_rate"
       /\ call.channel_id \in DOMAIN TIERED_RATES )
     => FirstTierRate(result.rate, call.amount,
                      TIERED_RATES[call.channel_id])

\* the scenario: amount 10000 on the bound of the first of the four tiers
C4_Witness ==
  /\ FeeReturned
  /\ call.use_tiered_rate
  /\ call.channel_id \in DOMAIN TIERED_RATES
  /\ TIERED_RATES[call.channel_id] = SpecTiers
  /\ call.amount = 10000
  /\ result.rate = 150
  /\ CallConfig.base_rate # 150

\* max_amount of the tier calculate_tiered_rate takes the rate from
SelectedBound(amount, channel_id) ==
  LET tiers == TIERED_RATES[channel_id]
  IN  tiers[TierIndex(amount, tiers)].max_amount

\* C5: for a channel with a tier list and amounts a1 < a2, the bound of the
\* tier selected for a1 is <= the bound of the tier selected for a2.
C5_TierMonotonic ==
  ( /\ call.op = "calculate_tiered_rate"
    /\ call.channel_id \in DOMAIN TIERED_RATES )
  => \A a2 \in Amounts :
       call.amount < a2 =>
         SelectedBound(call.amount, call.channel_id)
           <= SelectedBound(a2, call.channel_id)

\* a1 selects a tier by its bound while a larger amount exceeds every
\* bound and falls back to the last tier
C5_Witness ==
  /\ call.op = "calculate_tiered_rate"
  /\ call.channel_id \in DOMAIN TIERED_RATES
  /\ LET tiers == TIERED_RATES[call.channel_id]
     IN  /\ call.amount > tiers[1].max_amount
         /\ call.amount <= tiers[Len(tiers)].max_amount
         /\ \E a2 \in Amounts : a2 > tiers[Len(tiers)].max_amount
         /\ result.rate = tiers[TierIndex(call.amount, tiers)].rate

\* ------------------------------------------------------------------------
\* Properties of calculate_exchange_cost
\* ------------------------------------------------------------------------

\* a successful calculate_exchange_cost has returned
ExchangeReturned == call.op = "calculate_exchange_cost" /\ result.success

\* C6 as stated: for every amount, actual_amount <= market_amount when
\* spread_rate > 0 and actual_amount = market_amount when spread_rate = 0.
C6_Original ==
  ExchangeReturned =>
    /\ call.spread_rate > 0 => result.actual_amount <= result.market_amount
    /\ call.spread_rate = 0 => result.actual_amount = result.market_amount

\* C6: for every amount >= 0, a successful calculate_exchange_cost returns
\* actual_amount <= market_amount when spread_rate > 0; for every amount it
\* returns actual_amount = market_amount when spread_rate = 0.
C6_ActualAtMostMarket ==
  ExchangeReturned =>
    /\ (call.spread_rate > 0 /\ call.amount >= 0)
         => result.actual_amount <= result.market_amount
    /\ call.spread_rate = 0 => result.actual_amount = result.market_amount

\* a positive amount converted with a positive spread loses value
C6_Witness ==
  /\ ExchangeReturned
  /\ call.spread_rate > 0
  /\ call.amount > 0
  /\ result.actual_amount < result.market_amount

\* market rate of the current call, and its unrounded actual rate
CallMarketRate == EXCHANGE_RATES[call.from_currency]

CallExactRate == CallMarketRate * (1000 - call.spread_rate)

\* C7 as stated: the returned fields satisfy actual_rate = market_rate *
\* (1 - spread_rate), market_amount = amount * market_rate, actual_amount =
\* amount * actual_rate, exchange_loss = market_amount - actual_amount.
C7_Original ==
  ExchangeReturned =>
    /\ result.actual_rate * 100 = CallExactRate
    /\ result.market_amount = call.amount * CallMarketRate * 10
    /\ result.actual_amount = call.amount * result.actual_rate
    /\ result.exchange_loss = result.market_amount - result.actual_amount

\* C7: each returned field is the rounding of the unrounded value of the
\* equations: actual_rate is market_rate * (1 - spread_rate) to 4 decimals,
\* market_amount is amount * market_rate to 2 decimals, actual_amount is
\* amount * (unrounded actual rate) to 2 decimals, exchange_loss is the
\* difference of the unrounded amounts to 2 decimals; the returned loss is
\* within 0.01 of the difference of the returned amounts.
C7_RoundedEquations ==
  ExchangeReturned =>
    LET amount == call.amount
        lossRate == CallMarketRate * call.spread_rate
    IN  /\ NearestTo(result.actual_rate, CallExactRate, 100)
        /\ result.market_amount % 100 = 0
        /\ NearestTo(result.market_amount \div 100,
                     amount * CallMarketRate, 10)
        /\ result.actual_amount % 100 = 0
        /\ NearestTo(result.actual_amount \div 100
                       - amount * (CallExactRate \div 10000),
                     amount * (CallExactRate % 10000), 10000)
        /\ result.exchange_loss % 100 = 0
        /\ NearestTo(result.exchange_loss \div 100
                       - amount * (lossRate \div 10000),
                     amount * (lossRate % 10000), 10000)
        /\ result.exchange_loss
             - (result.market_amount - result.actual_amount) \in {-100, 0, 100}

\* the returned loss is not the difference of the returned amounts
C7_Witness ==
  /\ ExchangeReturned
  /\ call.spread_rate > 0
  /\ call.amount > 0
  /\ result.exchange_loss # result.market_amount - result.actual_amount

\* the scenario call: 1000 USD at 7.25 with a spread of 0.005
C8_Scenario ==
  /\ ExchangeReturned
  /\ call.amount = 1000
  /\ call.from_currency = "USD"
  /\ call.spread_rate = 5
  /\ EXCHANGE_RATES["USD"] = 7250

\* C8 as stated: the scenario call returns actual_rate = 7.21375,
\* market_amount = 7250.00, actual_amount = 7213.75, exchange_loss = 36.25.
C8_Original ==
  C8_Scenario =>
    /\ result.actual_rate * 100 = 7213750
    /\ result.market_amount = 72500000
    /\ result.actual_amount = 72137500
    /\ result.exchange_loss = 362500

\* C8: the scenario call returns actual_rate = 7.21375 rounded to four
\* decimals (7.2138, or 7.2137 when the float lies below the midpoint),
\* market_amount = 7250.00, actual_amount = 7213.75, exchange_loss = 36.25.
C8_ScenarioResult ==
  C8_Scenario =>
    /\ result.actual_rate \in {72137, 72138}
    /\ result.market_amount = 72500000
    /\ result.actual_amount = 72137500
    /\ result.exchange_loss = 362500

C8_Witness == C8_Scenario /\ result.actual_rate = 72138

\* ------------------------------------------------------------------------
\* Properties of compare_channel_fees
\* ------------------------------------------------------------------------

CompareReturned == call.op = "compare_channel_fees" /\ raised = ""

\* the list the loop of the current call runs over
CallIds == IF call.ids_omitted THEN CatalogOrder ELSE call.channel_ids

\* C9: the list returned by compare_channel_fees is in non-decreasing
\* total_cost and the entry at index i (position i + 1) has rank i + 1.
C9_SortedAndRanked ==
  CompareReturned =>
    /\ \A p \in 1..Len(result) : result[p].rank = p
    /\ \A p, q \in 1..Len(result) :
         p < q => result[p].total_cost <= result[q].total_cost

\* two entries whose order of cost is the reverse of their order in
\* channel_ids
C9_Witness ==
  /\ CompareReturned
  /\ Len(result) >= 2
  /\ Len(CallIds) = 2
  /\ result[1].total_cost < result[2].total_cost
  /\ result[1].channel_id = CallIds[2]
  /\ result[2].channel_id = CallIds[1]
  /\ result[1].rank = 1
  /\ result[2].rank = 2

\* channel ids of the entries of the current result whose total_cost is c
IdsAtCost(c) ==
  LET AtCost(e) == e.total_cost = c
      entries == SelectSeq(result, AtCost)
  IN  [p \in 1..Len(entries) |-> entries[p].channel_id]

\* the ids of the loop's list that have an entry of total_cost c
InputIdsAtCost(c) ==
  LET HasEntry(id) == \E p \in 1..Len(result) :
                        result[p].channel_id = id /\ result[p].total_cost = c
  IN  SelectSeq(CallIds, HasEntry)

\* C10: entries of equal total_cost appear, and are ranked, in the order
\* their ids have in channel_ids (catalog order when it is omitted).
C10_TiesInInputOrder ==
  CompareReturned =>
    \A p \in 1..Len(result) :
      IdsAtCost(result[p].total_cost) = InputIdsAtCost(result[p].total_cost)

\* two different channels of equal cost, passed in the reverse of catalog
\* order, ranked as passed
C10_Witness ==
  /\ CompareReturned
  /\ ~call.ids_omitted
  /\ call.channel_ids = <<CatalogOrder[2], CatalogOrder[1]>>
  /\ Len(result) = 2
  /\ result[1].total_cost = result[2].total_cost
  /\ result[1].channel_id = CatalogOrder[2]
  /\ result[2].channel_id = CatalogOrder[1]

\* ------------------------------------------------------------------------
\* Membership of the comparison; find_cheapest_channel
\* ------------------------------------------------------------------------

\* find_cheapest_channel has returned
FindReturned == call.op = "find_cheapest_channel" /\ raised = ""

\* the catalog has the channel and the channel lists the currency
Supports(channel_id, currency) ==
  /\ channel_id \in DOMAIN PAYMENT_CHANNELS
  /\ "supported_currencies" \in DOMAIN PAYMENT_CHANNELS[channel_id]
  /\ currency \in PAYMENT_CHANNELS[channel_id].supported_currencies

\* every list compare_channel_fees can return over the whole catalog is
\* empty
CatalogComparisonEmpty ==
  \A comparison \in compare_channel_fees(call.amount, call.currency,
                                         TRUE, <<>>) : comparison = <<>>

\* C11: compare_channel_fees returns the empty list when channel_ids is the
\* empty list (the catalog does not replace it) and when no channel of the
\* list supports the currency; find_cheapest_channel returns None exactly
\* when the comparison over the whole catalog is empty.
C11_EmptyComparison ==
  /\ CompareReturned /\ ~call.ids_omitted /\ call.channel_ids = <<>>
       => result = <<>>
  /\ CompareReturned
       /\ (\A p \in 1..Len(CallIds) : ~Supports(CallIds[p], call.currency))
       => result = <<>>
  /\ FindReturned => (result = None <=> CatalogComparisonEmpty)

\* the empty list was passed for a currency that a channel of the catalog
\* supports, and the empty list came back
C11_Witness ==
  /\ CompareReturned
  /\ ~call.ids_omitted
  /\ call.channel_ids = <<>>
  /\ \E id \in CatalogIds :
       /\ Supports(id, call.currency)
       /\ IsActive(PAYMENT_CHANNELS[id])
       /\ call.currency \in DOMAIN EXCHANGE_RATES
  /\ result = <<>>

\* calculate_total_cost succeeds for the channel and the currency of the
\* call: the channel is in the catalog and active, and the currency is CNY
\* or has a market rate
CostComputable(channel_id) ==
  /\ channel_id \in DOMAIN PAYMENT_CHANNELS
  /\ Get(PAYMENT_CHANNELS[channel_id], "is_active", TRUE)
  /\ call.currency = "CNY" \/ call.currency \in DOMAIN EXCHANGE_RATES

Qualifies(channel_id) ==
  Supports(channel_id, call.currency) /\ CostComputable(channel_id)

\* number of positions of the sequence ids that hold channel_id
Occurrences(ids, channel_id) ==
  Cardinality({p \in 1..Len(ids) : ids[p] = channel_id})

\* number of entries of the returned list for channel_id
EntriesOf(channel_id) ==
  Cardinality({p \in 1..Len(result) : result[p].channel_id = channel_id})

\* C12: with channel_ids omitted the candidates are the channels of the
\* catalog; the returned list has one entry per occurrence of a candidate
\* that is in the catalog, supports the currency and has a successful total
\* cost, and no entry for any other channel.
C12_Membership ==
  CompareReturned =>
    LET candidates == IF call.ids_omitted
                      THEN CatalogOrder
                      ELSE call.channel_ids
    IN  \A id \in ChannelIds \cup
                  {result[p].channel_id : p \in 1..Len(result)} :
          EntriesOf(id) = IF Qualifies(id)
                          THEN Occurrences(candidates, id)
                          ELSE 0

\* channel_ids omitted: one catalog channel has its entry, the other does
\* not support the currency and has none
C12_Witness ==
  /\ CompareReturned
  /\ call.ids_omitted
  /\ Len(result) = 1
  /\ \E id \in CatalogIds :
       /\ ~Supports(id, call.currency)
       /\ CostComputable(id)
       /\ EntriesOf(id) = 0

\* ------------------------------------------------------------------------
\* Properties of calculate_total_cost
\* ------------------------------------------------------------------------

\* a successful calculate_total_cost has returned
TotalReturned ==
  call.op = "calculate_total_cost" /\ raised = "" /\ result.success

\* the records calculate_exchange_cost can return for the arguments of the
\* current call
CallExchangeResults ==
  calculate_exchange_cost(call.amount, call.currency, call.spread_rate)

\* fee and exchange_loss are the result's fee at the rate actual_rate
\* (1/10000) plus its exchange loss, in 1/1000000
FeeAndLoss(actual_rate) ==
  (result.fee \div 100) * actual_rate + result.exchange_loss * 100

\* C13 as stated: for CNY exchange_loss = 0, amount_cny = amount and
\* total_cost = fee; otherwise total_cost = fee * actual_rate +
\* exchange_loss, with exchange_loss and amount_cny those of
\* calculate_exchange_cost.
C13_Original ==
  TotalReturned =>
    IF call.currency = "CNY"
    THEN /\ result.exchange_loss = 0
         /\ result.amount_cny = call.amount * 10000
         /\ result.total_cost = result.fee
    ELSE \E exchange_result \in CallExchangeResults :
           /\ exchange_result.success
           /\ result.exchange_loss = exchange_result.exchange_loss
           /\ result.amount_cny = exchange_result.actual_amount
           /\ result.total_cost * 100 =
                FeeAndLoss(exchange_result.actual_rate)

\* C13: for CNY exchange_loss = 0, amount_cny = amount and total_cost =
\* fee; otherwise total_cost is fee * actual_rate + exchange_loss rounded to
\* 2 decimals, where actual_rate, exchange_loss and amount_cny (its
\* actual_amount) are the fields calculate_exchange_cost returns.
C13_TotalCostComposition ==
  TotalReturned =>
    IF call.currency = "CNY"
    THEN /\ result.exchange_loss = 0
         /\ result.amount_cny = call.amount * 10000
         /\ result.total_cost = result.fee
    ELSE \E exchange_result \in CallExchangeResults :
           /\ exchange_result.success
           /\ result.exchange_loss = exchange_result.exchange_loss
           /\ result.amount_cny = exchange_result.actual_amount
           /\ NearestTo(result.total_cost \div 100,
                        FeeAndLoss(exchange_result.actual_rate), 10000)

\* a foreign-currency total with a positive exchange loss whose unrounded
\* value is not a whole number of cents
C13_Witness ==
  /\ TotalReturned
  /\ call.currency # "CNY"
  /\ result.exchange_loss > 0
  /\ \A exchange_result \in CallExchangeResults :
       FeeAndLoss(exchange_result.actual_rate) % 10000 # 0

\* the values total_cost can have before round(total_cost, 2), in
\* 1/1000000, for a successful record r of calculate_total_cost
UnroundedTotals(r, spread_rate) ==
  IF r.currency = "CNY"
  THEN {r.fee * 100}
  ELSE { (r.fee \div 100) * exchange_result.actual_rate
           + r.exchange_loss * 100
         : exchange_result \in
             {x \in calculate_exchange_cost(r.amount, r.currency,
                                            spread_rate) : x.success} }

\* total_cost_rate as stated: the returned total_cost over amount_cny (to
\* the 4th decimal) unless amount_cny is zero, and then 0
RateAsStated(r) ==
  LET cents == r.amount_cny \div 100
      diff == r.total_cost_rate * cents - r.total_cost * 100
      Abs(x) == IF x < 0 THEN -x ELSE x
  IN  IF r.amount_cny # 0
      THEN 2 * Abs(diff) <= Abs(cents)
      ELSE r.total_cost_rate = 0

\* total_cost_rate as computed: the unrounded total_cost over amount_cny,
\* rounded to 4 decimals, if amount_cny > 0, and 0 otherwise
RateAsComputed(r, spread_rate) ==
  IF r.amount_cny > 0
  THEN \E total_cost \in UnroundedTotals(r, spread_rate) :
         NearestTo(r.total_cost_rate, total_cost, r.amount_cny \div 100)
  ELSE r.total_cost_rate = 0

\* the successful calculate_total_cost records the entry at position p of
\* the returned comparison can come from
EntrySources(p) ==
  { r \in calculate_total_cost(call.amount, call.currency,
                               result[p].channel_id, 5) :
      /\ r.success
      /\ r.fee = result[p].fee
      /\ r.total_cost = result[p].total_cost
      /\ r.total_cost_rate = result[p].total_cost_rate }

\* C14 as stated: in every successful calculate_total_cost result and every
\* entry of compare_channel_fees, total_cost_rate = total_cost / amount_cny
\* when amount_cny is not zero and total_cost_rate = 0 when it is zero.
C14_Original ==
  /\ TotalReturned => RateAsStated(result)
  /\ CompareReturned =>
       \A p \in 1..Len(result) : \E r \in EntrySources(p) : RateAsStated(r)

\* C14: in every successful calculate_total_cost result, total_cost_rate is
\* total_cost before its rounding to 2 decimals, divided by amount_cny and
\* rounded to 4 decimals, when amount_cny > 0, and 0 when amount_cny <= 0;
\* every entry of compare_channel_fees has the total_cost_rate of such a
\* result for its channel.
C14_TotalCostRate ==
  /\ TotalReturned => RateAsComputed(result, call.spread_rate)
  /\ CompareReturned =>
       \A p \in 1..Len(result) :
         \E r \in EntrySources(p) : RateAsComputed(r, 5)

\* a negative amount: amount_cny < 0, the total cost is not zero and the
\* rate is reported as 0
C14_Witness ==
  /\ TotalReturned
  /\ result.amount_cny < 0
  /\ result.total_cost # 0
  /\ result.total_cost_rate = 0

\* the lists compare_channel_fees can return over the whole catalog for the
\* amount and currency of the current call
CatalogComparisons ==
  compare_channel_fees(call.amount, call.currency, TRUE, <<>>)

\* C15: an entry returned by find_cheapest_channel has rank 1 and is an
\* entry of the comparison over the whole catalog whose total_cost is <=
\* that of every entry of the comparison.
C15_CheapestFirst ==
  FindReturned /\ result # None =>
    /\ result.rank = 1
    /\ \E comparison \in CatalogComparisons :
         /\ \E p \in 1..Len(comparison) : comparison[p] = result
         /\ \A p \in 1..Len(comparison) :
              result.total_cost <= comparison[p].total_cost

\* the cheaper of two channels of different cost was returned
C15_Witness ==
  /\ FindReturned
  /\ result # None
  /\ \E comparison \in CatalogComparisons :
       /\ Len(comparison) = 2
       /\ comparison[1] = result
       /\ comparison[2].total_cost > result.total_cost

\* ------------------------------------------------------------------------
\* Failure records and exceptions
\* ------------------------------------------------------------------------

\* C16: calculate_channel_fee returns the record {success: False, error}
\* and nothing else, with the unknown-channel message when channel_id is
\* not in the catalog and with the inactive-channel message when the
\* channel's is_active flag is false, for every amount; it returns success
\* = True for every channel that is in the catalog and active.
C16_FeeFailures ==
  call.op = "calculate_channel_fee" =>
    /\ raised = ""
    /\ IF call.channel_id \notin DOMAIN PAYMENT_CHANNELS
       THEN result = [success |-> FALSE, error |-> "unknown_channel"]
       ELSE IF ~Get(CallConfig, "is_active", TRUE)
       THEN result = [success |-> FALSE, error |-> "inactive_channel"]
       ELSE result.success

\* a positive amount on an inactive channel of the catalog was refused
C16_Witness ==
  /\ call.op = "calculate_channel_fee"
  /\ call.amount > 0
  /\ call.channel_id \in DOMAIN PAYMENT_CHANNELS
  /\ "is_active" \in DOMAIN CallConfig
  /\ ~CallConfig.is_active
  /\ result = [success |-> FALSE, error |-> "inactive_channel"]

\* C17: calculate_exchange_cost returns the record {success: False, error}
\* with the unsupported-currency message, without rate or amount fields,
\* exactly when from_currency has no entry in EXCHANGE_RATES, for every
\* amount and spread_rate.
C17_ExchangeFailure ==
  call.op = "calculate_exchange_cost" =>
    /\ raised = ""
    /\ IF call.from_currency \in DOMAIN EXCHANGE_RATES
       THEN /\ result.success
            /\ {"market_rate", "actual_rate", "market_amount",
                "actual_amount"} \subseteq DOMAIN result
       ELSE result = [success |-> FALSE, error |-> "unsupported_currency"]

\* a currency that is not in the table was refused
C17_Witness ==
  /\ call.op = "calculate_exchange_cost"
  /\ call.from_currency \notin DOMAIN EXCHANGE_RATES
  /\ call.amount > 0
  /\ result = [success |-> FALSE, error |-> "unsupported_currency"]

\* the five functions that report errors in their return value
Reporting ==
  {"calculate_channel_fee", "calculate_exchange_cost",
   "calculate_total_cost", "compare_channel_fees", "find_cheapest_channel"}

CallConversion == ToFloat(call.amount)

\* the argument is a number below zero, or cannot be converted to a float
InvalidAmount ==
  \/ CallConversion.raised # ""
  \/ LessThanZero(CallConversion.value)

\* C19: validate_amount raises ValueError for every input that is negative
\* or cannot be converted to a number, and otherwise returns the numeric
\* value of the input; it never returns a negative value, and it accepts
\* zero.
C19_Original ==
  call.op = "validate_amount" =>
    /\ InvalidAmount => raised = "ValueError"
    /\ ~InvalidAmount =>
         /\ raised = ""
         /\ result.value = CallConversion.value
         /\ ~LessThanZero(result.value)
    /\ call.amount \in {[type |-> "int", m |-> 0, e |-> 0],
                        [type |-> "float", value |-> Finite(0, 0)],
                        [type |-> "str", text |-> <<"0">>]}
         => raised = ""

\* C20: validate_currency(c, supported) returns the upper-cased form of c
\* when that form is a member of supported and raises ValueError otherwise;
\* a returned value is a member of supported, and validating a returned
\* value returns it unchanged.
C20_UpperCasedMember ==
  call.op = "validate_currency" =>
    LET supported == {call.supported_currencies[i]
                        : i \in 1..Len(call.supported_currencies)}
    IN  /\ Upper(call.currency) \in supported
             => raised = "" /\ result.value = Upper(call.currency)
        /\ Upper(call.currency) \notin supported => raised = "ValueError"
        /\ raised = "" =>
             /\ result.value \in supported
             /\ validate_currency(result.value, call.supported_currencies)
                  = Returned(result.value)

\* a code with a lower-case letter was accepted and returned in capitals
C20_Witness ==
  /\ call.op = "validate_currency"
  /\ raised = ""
  /\ Len(call.currency) > 1
  /\ result.value # call.currency

\* ------------------------------------------------------------------------
\* Non-positive amounts and the clamp step of calculate_channel_fee
\* ------------------------------------------------------------------------

\* C21: for every amount <= 0 and every active channel of the catalog,
\* calculate_channel_fee returns success with a final fee of zero, whatever
\* fixed_fee and min_fee the channel has.
C21_Original ==
  ( /\ call.op = "calculate_channel_fee"
    /\ call.amount <= 0
    /\ call.channel_id \in DOMAIN PAYMENT_CHANNELS
    /\ Get(PAYMENT_CHANNELS[call.channel_id], "is_active", TRUE) )
  => /\ raised = ""
     /\ result.success
     /\ result.final_fee = 0

\* amount * rate + fixed_fee of the current call, unrounded, in 1/10000
CallRawFee == call.amount * result.rate + Get(CallConfig, "fixed_fee", 0)

\* a limit replaces the raw fee of the current call
MinClampApplies == CallMinFee > 0 /\ CallRawFee < CallMinFee

MaxClampApplies ==
  ~MinClampApplies /\ CallMaxFee > 0 /\ CallRawFee > CallMaxFee

\* the fee the clamp step selects, unrounded
CallClampedFee ==
  IF MinClampApplies THEN CallMinFee
  ELSE IF MaxClampApplies THEN CallMaxFee
  ELSE CallRawFee

\* C22 as stated: the returned final_fee is min_fee when min_fee > 0 and
\* the raw fee is below it, otherwise max_fee when max_fee > 0 and the raw
\* fee exceeds it, otherwise the raw fee; fee_note is non-empty exactly when
\* one of the two limits replaced the raw fee.
C22_Original ==
  FeeReturned =>
    /\ result.final_fee = CallClampedFee
    /\ result.fee_note # "" <=> (MinClampApplies \/ MaxClampApplies)

\* C22: the returned final_fee is, rounded to 2 decimals, min_fee when
\* min_fee > 0 and the raw fee is below it, otherwise max_fee when max_fee >
\* 0 and the raw fee exceeds it, otherwise the raw fee; fee_note is
\* non-empty exactly when one of the two limits replaced the raw fee.
C22_ClampStep ==
  FeeReturned =>
    /\ result.final_fee % 100 = 0
    /\ NearestTo(result.final_fee \div 100, CallClampedFee, 100)
    /\ result.fee_note # "" <=> (MinClampApplies \/ MaxClampApplies)

\* amount 100 at rate 0.02 with min_fee 10: raw fee 2.00, final fee 10.00
\* and a note
C22_Witness ==
  /\ FeeReturned
  /\ call.amount = 100
  /\ result.rate = 200
  /\ CallMinFee = 100000
  /\ CallRawFee = 20000
  /\ result.calculated_fee = 20000
  /\ result.final_fee = 100000
  /\ result.fee_note # ""

\* ------------------------------------------------------------------------
\* Frame
\* ------------------------------------------------------------------------

\* C23: no call of calculate_tiered_rate, calculate_channel_fee,
\* calculate_exchange_cost, calculate_total_cost, compare_channel_fees or
\* find_cheapest_channel, in any sequence of calls, changes
\* PAYMENT_CHANNELS, TIERED_RATES or EXCHANGE_RATES, and the channel_ids
\* list passed to compare_channel_fees is the same after the call.
C23_TablesAndListUnchanged ==
  [][ /\ PAYMENT_CHANNELS' = PAYMENT_CHANNELS
      /\ TIERED_RATES' = TIERED_RATES
      /\ EXCHANGE_RATES' = EXCHANGE_RATES
      /\ call'.op = "compare_channel_fees"
           => call'.channel_ids_after = call'.channel_ids ]_vars

\* a comparison over a list of two channels returned both, ranked, and the
\* caller's list is as passed
C23_Witness ==
  /\ CompareReturned
  /\ ~call.ids_omitted
  /\ Len(call.channel_ids) = 2
  /\ Len(result) = 2
  /\ result[1].channel_id = call.channel_ids[2]
  /\ call.channel_ids_after = call.channel_ids

\* ------------------------------------------------------------------------
\* Failure propagation
\* ------------------------------------------------------------------------

\* the fee step of the current calculate_total_cost call fails
CallFeeFails ==
  \/ call.channel_id \notin DOMAIN PAYMENT_CHANNELS
  \/ ~Get(PAYMENT_CHANNELS[call.channel_id], "is_active", TRUE)

\* C26: calculate_total_cost returns the fee failure record, and nothing of
\* the exchange step, when the channel is unknown or inactive; when the fee
\* step succeeds and the currency is neither CNY nor in EXCHANGE_RATES it
\* returns success = False with the exchange error and no total_cost;
\* compare_channel_fees returns, without an entry for any channel whose
\* total cost is a failure.
C26_FailurePropagation ==
  /\ call.op = "calculate_total_cost" /\ CallFeeFails =>
       /\ raised = ""
       /\ result \in {[success |-> FALSE, error |-> "unknown_channel"],
                      [success |-> FALSE, error |-> "inactive_channel"]}
  /\ ( /\ call.op = "calculate_total_cost"
       /\ ~CallFeeFails
       /\ call.currency \notin DOMAIN EXCHANGE_RATES \cup {"CNY"} ) =>
       /\ raised = ""
       /\ ~result.success
       /\ result.error = "unsupported_currency"
       /\ "total_cost" \notin DOMAIN result
  /\ call.op = "compare_channel_fees" =>
       /\ raised = ""
       /\ \A p \in 1..Len(result) : CostComputable(result[p].channel_id)

\* the fee step succeeded and the exchange step failed
C26_Witness ==
  /\ call.op = "calculate_total_cost"
  /\ ~CallFeeFails
  /\ call.currency \notin DOMAIN EXCHANGE_RATES \cup {"CNY"}
  /\ ~result.success
  /\ result.error = "unsupported_currency"
  /\ "fee" \in DOMAIN result

\* ------------------------------------------------------------------------
\* Properties of the channel objects
\* ------------------------------------------------------------------------

\* calculate_fee of a channel object built from a configuration has returned
ObjectFeeReturned == call.op = "channel.calculate_fee"

\* C25, as stated: the fee of a channel object built by
\* create_channel_from_config from a configuration with a positive min_fee
\* is at least that min_fee, for every kind of channel and every amount.
\* The code does not have this property: a bank channel takes a tenth off
\* the clamped fee of an amount above 50000, a configuration without a bank,
\* wallet or card type loses its min_fee in the factory, and a max_fee below
\* the min_fee is applied after it.
C25_Original ==
  (ObjectFeeReturned /\ Get(call.config, "min_fee", 0) > 0)
    => result.fee >= ObjectFeeUnit * call.config.min_fee

\* ------------------------------------------------------------------------
\* Properties of calculate_percentile
\* ------------------------------------------------------------------------

\* a call of calculate_percentile with a percentile in 0..100 is over
PercentileCalled ==
  /\ call.op = "calculate_percentile"
  /\ call.percentile \in 0..100

\* the smallest and the largest number of the call's list, in 1/FloatScale
CallMinimum ==
  FloatScale *
    (CHOOSE v \in Values :
       /\ \E i \in DOMAIN call.values : call.values[i] = v
       /\ \A i \in DOMAIN call.values : call.values[i] >= v)

CallMaximum ==
  FloatScale *
    (CHOOSE v \in Values :
       /\ \E i \in DOMAIN call.values : call.values[i] = v
       /\ \A i \in DOMAIN call.values : call.values[i] <= v)

\* the parts of C30 that do not depend on the interpolated value: no index
\* beyond the list, the minimum at 0 and the maximum at 100, the caller's
\* list untouched, and 0 for an empty list
PercentileIndexing ==
  PercentileCalled =>
    /\ raised = ""
    /\ call.values_after = call.values
    /\ call.values = <<>> => result.value = 0
    /\ call.values # <<>> =>
         /\ LargestIndexRead(call.values, call.percentile)
              <= Len(call.values) - 1
         /\ call.percentile = 0 => result.value = CallMinimum
         /\ call.percentile = 100 => result.value = CallMaximum

\* C30, as stated: for a non-empty list and a percentile in 0..100,
\* calculate_percentile reads no position beyond the sorted list, returns a
\* value between the minimum and the maximum of the list, the minimum at 0
\* and the maximum at 100, and does not reorder the caller's list; for an
\* empty list it returns 0. The code does not keep the value between the
\* minimum and the maximum: the two rounded products of the interpolation
\* can add up to less than the minimum or more than the maximum.
C30_Original ==
  /\ PercentileIndexing
  /\ (PercentileCalled /\ call.values # <<>>) =>
       /\ result.value >= CallMinimum
       /\ result.value <= CallMaximum

\* ------------------------------------------------------------------------
\* Properties of Transaction
\* ------------------------------------------------------------------------

\* C29: a new Transaction is pending; after any sequence of complete(),
\* fail(), calculate_fee() and set_converted_amount() its status is one of
\* pending, completed and failed; only complete() and fail() change the
\* status; and a transaction that is not pending never becomes pending.
C29_StatusLifecycle ==
  [][ /\ transaction = None => transaction'.self.status = "pending"
      /\ transaction'.self.status \in {"pending", "completed", "failed"}
      /\ transaction # None =>
           /\ transaction'.self.status # transaction.self.status
                => transaction'.method \in {"complete", "fail"}
           /\ transaction.self.status # "pending"
                => transaction'.self.status # "pending" ]_vars

\* complete() was called on a transaction that had failed with a fee set
C29_Witness ==
  /\ transaction # None
  /\ transaction.method = "complete"
  /\ transaction.self.status = "completed"
  /\ transaction.self.failure_reason # <<>>
  /\ transaction.self.fee # <<>>

\* ------------------------------------------------------------------------
\* Properties of generate_transactions_by_total
\* ------------------------------------------------------------------------

\* an iteration of the loop has just run
Iterated == generator'.transactions = generator.transactions + 1

\* C28: generate_transactions_by_total terminates for every target; each
\* iteration adds a strictly positive amount to the running total, the whole
\* remainder once it is below 1000; the loop stops as soon as the total has
\* reached the target or the list holds more than 10000 transactions; and
\* the list never holds more than 10001.
C28_Terminates ==
  /\ (generator.pc = "while") ~> (generator.pc = "return")
  /\ [](generator.pc \in {"while", "return"} =>
          /\ generator.transactions <= MaxTransactions + 1
          /\ generator.pc = "while" =>
               generator.transactions <= MaxTransactions
          /\ generator.pc = "return" =>
               \/ generator.current_total >= generator.target_total_amount
               \/ generator.transactions > MaxTransactions)
  /\ [][ generator.pc = "while" =>
           /\ Iterated =>
                /\ generator'.amount > 0
                /\ generator'.current_total
                     = generator.current_total + generator'.amount
                /\ generator.target_total_amount - generator.current_total
                     < SmallRemainder
                   => generator'.current_total
                        = generator.target_total_amount
           /\ generator.current_total >= generator.target_total_amount
                => ~Iterated /\ generator'.pc = "return"
           /\ ~Iterated => generator'.transactions = generator.transactions
         ]_vars

\* the loop was left by the break: 10001 transactions, the target not reached
C28_Witness ==
  /\ generator.pc = "return"
  /\ generator.transactions = MaxTransactions + 1
  /\ generator.current_total < generator.target_total_amount

\* ------------------------------------------------------------------------
\* Properties of interactive_mode
\* ------------------------------------------------------------------------

\* C27, as stated: the menu loop ends only when the user enters 0; after any
\* other input, a fee query with a positive amount for which
\* find_cheapest_channel finds a channel included, what is displayed comes
\* from fields the entry carries and the loop is at its prompt again with no
\* unhandled exception. The code does not have this property: option 3
\* prints result['avg_fee_rate'] and result['estimated_fee'], keys that the
\* entries of compare_channel_fees do not have, and the KeyError is not
\* caught.
C27_Original ==
  /\ menu.pc \in {"none", "prompt", "ended"}
  /\ menu.pc = "ended" <=> (menu.pc # "none" /\ menu.choice = "0")
  /\ menu.pc # "none" => menu.exception = ""

\* ------------------------------------------------------------------------
\* Properties of concurrent calls
\* ------------------------------------------------------------------------

\* the outcome of a finished call is one the same call has when it runs
\* alone with the same arguments
AsWhenAlone(frame) ==
  IF frame.op = "calculate_channel_fee"
  THEN /\ frame.raised
            = channel_fee_exception(frame.amount, frame.channel_id, TRUE)
       /\ frame.raised = "" =>
            frame.result \in calculate_channel_fee(frame.amount,
                                                   frame.channel_id, TRUE)
  ELSE IF frame.op = "calculate_exchange_cost"
  THEN /\ frame.raised = ""
       /\ frame.result \in calculate_exchange_cost(frame.amount,
                                                   frame.currency, 5)
  ELSE /\ frame.raised
            = compare_exception(frame.amount, frame.currency,
                                frame.ids_omitted, frame.channel_ids)
       /\ frame.raised = "" =>
            frame.result \in compare_channel_fees(frame.amount,
                                                  frame.currency,
                                                  frame.ids_omitted,
                                                  frame.channel_ids)

\* C24: when several callers run fee, exchange-cost and comparison calls
\* with their steps interleaved in any order, every call returns what it
\* returns when it runs alone with the same arguments, whatever calls are
\* in progress or were made before.
C24_ResultsAsWhenAlone ==
  \A caller \in DOMAIN callers :
    callers[caller].pc = "done" => AsWhenAlone(callers[caller])

\* a comparison has returned two entries while another caller's comparison,
\* for another amount, is inside its loop with an entry collected
C24_Witness ==
  \E c, d \in DOMAIN callers :
    /\ callers[c].pc = "done"
    /\ callers[c].op = "compare_channel_fees"
    /\ Len(callers[c].result) = 2
    /\ callers[d].pc = "for"
    /\ callers[d].results # <<>>
    /\ callers[d].amount # callers[c].amount

====
